---- MODULE Spec2Model ----
(***************************************************************************)
(* Email Templates app: the Store (localStorage CRUD for folders and       *)
(* templates, first-run sample seeding) of core.js, as a state machine.    *)
(*                                                                         *)
(* Encoding of JavaScript values                                           *)
(*   string      a string; its i-th character is SubSeq(s, i, i)           *)
(*   undefined   Undefined (string arguments), NoArg (id arguments)        *)
(*   null        null (the empty sequence, for ids)                        *)
(*   id          <<r, t>>: uid() concatenates the digits of Math.random()  *)
(*               with Date.now(); the time part has a fixed width, so the  *)
(*               concatenation is the pair                                 *)
(*   timestamp   the millisecond count that nowISO() prints                *)
(*                                                                         *)
(* JavaScript runs one handler at a time, so a call is one step. After a   *)
(* call the variables pre and last hold what the call began with and what  *)
(* it returned; Return ends the handler and clears them.                   *)
(*                                                                         *)
(* Spec       every call, with arguments that vary the structure of the    *)
(*            store: which folders and templates exist and how templates   *)
(*            are filed                                                    *)
(* SpecFields createFolder, createTemplate and updateTemplate, with        *)
(*            patches that vary the fields of a template                   *)
(* SpecNames  the calls that take a name, with names of every kind, and    *)
(*            listTemplates                                                *)
(* SpecBlob   Spec with an item that can be lost between two calls         *)
(* SpecFaults SpecBlob with items that are no store and with a storage     *)
(*            medium that refuses writes                                   *)
(* SpecTabs   createTemplate in two execution contexts on one item         *)
(* SpecFiling Spec with the two list calls and with templates filed under  *)
(*            a folder id that no folder has                               *)
(* SpecEngine render and missingFields on a loaded page, over templates    *)
(*            put together from the pieces of a token and over data with   *)
(*            entries of every kind                                        *)
(* SpecQuick  render and missingFields between calls of the store, on an   *)
(*            item that can be lost                                        *)
(* SpecQuery  the calls that read, each of them also made twice in a row,  *)
(*            between calls that build the store                           *)
(* SpecPreview the preview page (index.js) over templates whose subject    *)
(*            and body hold whole tokens and halves of tokens              *)
(* SpecBuilder the builder page (builder.js) in its two versions           *)
(* SpecLibrary the library page (library.js) and the builder in one        *)
(*            browsing context that goes from one page to the other        *)
(***************************************************************************)
EXTENDS Integers, Sequences, FiniteSets

\* ------------------------------------------------------------------ bounds
\* Largest clock value (milliseconds since the first page load).
MaxTime == 1
\* Number of distinct outcomes of Math.random().toString(36).slice(2, 9).
MaxRand == 1
\* Largest number of folders / templates kept in the store.
MaxFolders == 2
MaxTemplates == 2
\* Largest number of folders under SpecFields.
FieldsMaxFolders == 1
\* The longest template text put together from pieces has so many pieces.
MaxSegments == 5

\* ------------------------------------------------------------------ values
\* No call of the model passes this text as a string.
Undefined == "<undefined>"
NoArg == << -1 >>
null == << >>

Rand == 0 .. (MaxRand - 1)
\* An id no uid() call returns: used as the id that matches no entity.
GhostId == << MaxRand, 0 >>

\* String.prototype.trim(): white space is removed from both ends. These
\* are the white space characters a string of the model can hold.
WhiteSpace == { " ", "\t", "\n", "\f", "\r" }

RECURSIVE trimStart(_)
trimStart(s) ==
  IF s = "" THEN ""
  ELSE IF SubSeq(s, 1, 1) \in WhiteSpace THEN trimStart(SubSeq(s, 2, Len(s))) ELSE s

RECURSIVE trimEnd(_)
trimEnd(s) ==
  IF s = "" THEN ""
  ELSE IF SubSeq(s, Len(s), Len(s)) \in WhiteSpace
       THEN trimEnd(SubSeq(s, 1, Len(s) - 1)) ELSE s

trim(s) == trimEnd(trimStart(s))

\* JavaScript truthiness of a string argument: undefined and "" are falsy.
Falsy(s) == s = Undefined \/ s = ""

\* String(x || dflt).trim() || dflt
TrimOr(x, dflt) ==
  LET t == trim(IF Falsy(x) THEN dflt ELSE x)
  IN  IF t = "" THEN dflt ELSE t

\* The literals of core.js. The em dash of the sample (U+2014, which a
\* string of this language cannot hold) is written "--".
SampleName == "Sample -- Quick Follow-up"

SampleSubject == "Quick follow-up with {{company_name}}"

SampleContent ==
     "Hi {{first_name}},\n" \o
     "\n" \o
     "Nice speaking with {{spoke_to}} at {{company_name}}.\n" \o
     "\n" \o
     "As mentioned, compared to {{competitor}}, we can streamline your process and reduce admin. \n" \o
     "Are you free on {{date_1|longdate}} or {{date_2|shortdate}} to chat?\n" \o
     "\n" \o
     "Thanks,\n" \o
     "-- Your Name"

NewFolderName == "New Folder"

UntitledTemplateName == "Untitled Template"

\* ------------------------------------------------------------------ state
VARIABLES
  localStorage,      \* the item stored under STORAGE_KEY
  now,               \* the clock read by Date.now() and nowISO()
  loaded,            \* a page has run core.js: window.ETCore exists
  pre,               \* the item under STORAGE_KEY when the last call began
  last,              \* the last call: operation, arguments, return value
  sampleInjections,  \* how many times the sample template was pushed
  full,              \* the storage medium refuses a write: setItem throws
  applied,           \* the calls of this page applied one after another
  tabs,              \* execution contexts between their read and their write
  ui                 \* the page that is open and what its fields hold

vars ==
  << localStorage, now, loaded, pre, last, sampleInjections, full, applied, tabs, ui >>

\* The value getStore() writes when nothing usable is stored. settings is {};
\* a sampleSeeded that is not set reads as "not true" and is modelled FALSE.
initial ==
  [ version |-> 1, folders |-> << >>, templates |-> << >>,
    settings |-> [ sampleSeeded |-> FALSE ] ]

\* localStorage.getItem gives null when the key was never written.
NullItem == [ kind |-> "null" ]

\* Items that no saveStore() wrote, by what JSON.parse makes of them:
\*   text       not JSON ("{oops"): JSON.parse throws, safeParse gives null
\*   falsy      JSON of a falsy value (null, 0, false, ""): !store holds
\*   primitive  JSON of a truthy value that is no object (7, true, "x")
\*   object     JSON of an object whose folders and templates are truthy
\*              but no arrays ({"folders":7,"templates":7}); seeded tells
\*              whether its settings.sampleSeeded is true
TextItem == [ kind |-> "text" ]
FalsyItem == [ kind |-> "falsy" ]
PrimitiveItem == [ kind |-> "primitive" ]
ObjectItem(seeded) == [ kind |-> "object", seeded |-> seeded ]

\* The items for which getStore() takes the branch of line 39.
Fallback(item) == item.kind \in { "null", "text", "falsy" }

\* JSON.stringify of a store. Every field of a store is a string, null, a
\* boolean, a number or an array/object of those, so JSON.parse gives the
\* same value back.
JSONstringify(store) == [ kind |-> "json", value |-> store ]

\* safeParse(raw, null): JSON.parse(null) is null.
safeParse(item) == IF item.kind = "json" THEN << item.value >> ELSE << >>

\* getStore(): the store it returns. A store written by saveStore has its
\* folders, templates and settings, so of the defaults of lines 45-48 only
\* the one for version can apply.
getStore(item) ==
  LET parsed == safeParse(item)
  IN  IF parsed = << >> THEN initial
      ELSE [ parsed[1] EXCEPT !.version = IF @ = 0 THEN 1 ELSE @ ]

\* Mutant of getStoreItem: line 41 is missing, the default store is
\* returned and not written.
getStoreItemNotWritten(item) == item

\* Mutant of getStoreItem: the test of line 39 is missing, and every call
\* writes the default store.
getStoreItemAlwaysWritten(item) == JSONstringify(initial)

\* getStore(): the item it leaves under STORAGE_KEY.
getStoreItem(item) ==
  IF safeParse(item) = << >> THEN JSONstringify(initial) ELSE item

\* Mutant of saveStore: only the version, folders and templates are written.
saveStoreWithoutSettings(next) ==
  JSONstringify([ next EXCEPT !.settings = initial.settings ])

\* Mutant of saveStore: the templates are not written.
saveStoreWithoutTemplates(next) ==
  JSONstringify([ next EXCEPT !.templates = << >> ])

saveStore(next) == JSONstringify(next)

\* The error an API call ends with, "none" when it returns. saves tells
\* whether the call reaches saveStore(), isFull whether setItem throws.
\*   line 41   setItem of the default store, not caught
\*   line 45   a property assigned on a primitive (strict code); in sloppy
\*             code the value goes on and the first method called on its
\*             folders or templates, which are undefined, throws
\*   lists that are no arrays have no push, find, findIndex, slice or
\*             filter and are not iterable (lines 169-267)
\*   line 53   setItem in saveStore, not caught
CallFault(item, saves, isFull) ==
  IF Fallback(item) THEN (IF isFull THEN "QuotaExceededError" ELSE "none")
  ELSE IF item.kind \in { "primitive", "object" } THEN "TypeError"
  ELSE IF saves /\ isFull THEN "QuotaExceededError"
  ELSE "none"

uid(r, t) == << r, t >>

\* Array.prototype.findIndex on an id; 0 stands for -1.
FindIndex(seq, id) ==
  IF \E i \in 1 .. Len(seq) : seq[i].id = id
  THEN CHOOSE i \in 1 .. Len(seq) :
         /\ seq[i].id = id
         /\ \A j \in 1 .. (i - 1) : seq[j].id # id
  ELSE 0

\* Array.prototype.splice(i, 1)
Splice(seq, i) == SubSeq(seq, 1, i - 1) \o SubSeq(seq, i + 1, Len(seq))

\* ------------------------------------------------------------------ seeding
sample(id, tC, tM) ==
  [ id |-> id, name |-> SampleName, subject |-> SampleSubject,
    content |-> SampleContent, folderId |-> null,
    createdAt |-> tC, updatedAt |-> tM ]

\* Mutant of ensureSampleTemplate: the sampleSeeded test of line 62 is missing.
ensureSampleTemplateUnguarded(item, r, tU, tC, tM) ==
  LET store == getStore(item)
      seeded ==
        IF Len(store.templates) = 0
        THEN [ store EXCEPT !.templates = Append(@, sample(uid(r, tU), tC, tM)) ]
        ELSE store
  IN  saveStore([ seeded EXCEPT !.settings.sampleSeeded = TRUE ])

\* Mutant of ensureSampleTemplate: the length test of line 64 is missing.
ensureSampleTemplateAlwaysPushes(item, r, tU, tC, tM) ==
  LET store == getStore(item)
  IN  IF store.settings.sampleSeeded = TRUE THEN getStoreItem(item)
      ELSE saveStore([ store EXCEPT
                         !.templates = Append(@, sample(uid(r, tU), tC, tM)),
                         !.settings.sampleSeeded = TRUE ])

\* ensureSampleTemplate(): the item under STORAGE_KEY when it returns.
ensureSampleTemplate(item, r, tU, tC, tM) ==
  LET store == getStore(item)
  IN  IF store.settings.sampleSeeded = TRUE THEN getStoreItem(item)
      ELSE LET seeded ==
                 IF Len(store.templates) = 0
                 THEN [ store EXCEPT !.templates = Append(@, sample(uid(r, tU), tC, tM)) ]
                 ELSE store
           IN  saveStore([ seeded EXCEPT !.settings.sampleSeeded = TRUE ])

\* The error the script ends with when ensureSampleTemplate() throws at
\* line 273, "none" when it returns.
\*   primitive  store.settings is undefined: line 62 throws (line 45 in
\*              strict code)
\*   object     7.length is not 0: nothing is pushed, line 89 saves
\*   others     line 41 writes the default store, line 89 saves
LoadFault(item, isFull) ==
  IF item.kind = "primitive" THEN "TypeError"
  ELSE IF item.kind = "object"
       THEN (IF ~ item.seeded /\ isFull THEN "QuotaExceededError" ELSE "none")
  ELSE IF Fallback(item) THEN (IF isFull THEN "QuotaExceededError" ELSE "none")
  ELSE IF getStore(item).settings.sampleSeeded # TRUE /\ isFull
       THEN "QuotaExceededError" ELSE "none"

\* ------------------------------------------------------------------ folders
\* Mutant of createFolder: the two "|| 'New Folder'" of line 174 are missing.
createFolderNoDefault(store, name, r, tU, tC) ==
  LET folder == [ id |-> uid(r, tU), name |-> trim(IF name = Undefined THEN "" ELSE name),
                  createdAt |-> tC ]
  IN  [ store |-> [ store EXCEPT !.folders = Append(@, folder) ],
        saved |-> TRUE, ret |-> "object", out |-> << folder >> ]

createFolder(store, name, r, tU, tC) ==
  LET folder == [ id |-> uid(r, tU), name |-> TrimOr(name, NewFolderName),
                  createdAt |-> tC ]
  IN  [ store |-> [ store EXCEPT !.folders = Append(@, folder) ],
        saved |-> TRUE, ret |-> "object", out |-> << folder >> ]

\* Mutant of renameFolder: the "|| f.name" of line 184 is missing.
renameFolderOverwrites(store, id, newName) ==
  LET i == FindIndex(store.folders, id)
  IN  IF i = 0 THEN [ store |-> store, saved |-> FALSE, ret |-> "false", out |-> << >> ]
      ELSE [ store |-> [ store EXCEPT !.folders[i].name =
                                        trim(IF Falsy(newName) THEN "" ELSE newName) ],
             saved |-> TRUE, ret |-> "true", out |-> << >> ]

renameFolder(store, id, newName) ==
  LET i == FindIndex(store.folders, id)
  IN  IF i = 0 THEN [ store |-> store, saved |-> FALSE, ret |-> "false", out |-> << >> ]
      ELSE LET t == trim(IF Falsy(newName) THEN "" ELSE newName)
               n == IF t = "" THEN store.folders[i].name ELSE t
           IN  [ store |-> [ store EXCEPT !.folders[i].name = n ],
                 saved |-> TRUE, ret |-> "true", out |-> << >> ]

\* Mutant of deleteFolder: keep mode unfiles every template.
deleteFolderUnfilesAll(store, id, mode) ==
  LET idx == FindIndex(store.folders, id)
  IN  IF idx = 0 THEN [ store |-> store, saved |-> FALSE, ret |-> "false", out |-> << >> ]
      ELSE LET NotInFolder(t) == t.folderId # id
               templates ==
                 IF mode = "deleteTemplates"
                 THEN SelectSeq(store.templates, NotInFolder)
                 ELSE [ k \in 1 .. Len(store.templates) |->
                          [ store.templates[k] EXCEPT !.folderId = null ] ]
           IN  [ store |-> [ store EXCEPT !.templates = templates,
                                         !.folders = Splice(@, idx) ],
                 saved |-> TRUE, ret |-> "true", out |-> << >> ]

\* Mutant of deleteFolder: deleteTemplates mode keeps the folder's templates
\* and removes the others.
deleteFolderInvertedFilter(store, id, mode) ==
  LET idx == FindIndex(store.folders, id)
  IN  IF idx = 0 THEN [ store |-> store, saved |-> FALSE, ret |-> "false", out |-> << >> ]
      ELSE LET InFolder(t) == t.folderId = id
               templates ==
                 IF mode = "deleteTemplates"
                 THEN SelectSeq(store.templates, InFolder)
                 ELSE [ k \in 1 .. Len(store.templates) |->
                          IF store.templates[k].folderId = id
                          THEN [ store.templates[k] EXCEPT !.folderId = null ]
                          ELSE store.templates[k] ]
           IN  [ store |-> [ store EXCEPT !.templates = templates,
                                         !.folders = Splice(@, idx) ],
                 saved |-> TRUE, ret |-> "true", out |-> << >> ]

\* Mutant of deleteFolder: the folder goes, its templates are left as they are.
deleteFolderOnly(store, id, mode) ==
  LET idx == FindIndex(store.folders, id)
  IN  IF idx = 0 THEN [ store |-> store, saved |-> FALSE, ret |-> "false", out |-> << >> ]
      ELSE [ store |-> [ store EXCEPT !.folders = Splice(@, idx) ],
             saved |-> TRUE, ret |-> "true", out |-> << >> ]

deleteFolder(store, id, mode) ==
  LET idx == FindIndex(store.folders, id)
  IN  IF idx = 0 THEN [ store |-> store, saved |-> FALSE, ret |-> "false", out |-> << >> ]
      ELSE LET NotInFolder(t) == t.folderId # id
               templates ==
                 IF mode = "deleteTemplates"
                 THEN SelectSeq(store.templates, NotInFolder)
                 ELSE [ k \in 1 .. Len(store.templates) |->
                          IF store.templates[k].folderId = id
                          THEN [ store.templates[k] EXCEPT !.folderId = null ]
                          ELSE store.templates[k] ]
           IN  [ store |-> [ store EXCEPT !.templates = templates,
                                         !.folders = Splice(@, idx) ],
                 saved |-> TRUE, ret |-> "true", out |-> << >> ]

\* folderId || null
OrNull(folderId) == IF folderId = NoArg \/ folderId = null THEN null ELSE folderId

\* Mutant of moveTemplatesToFolder: only the first template found in
\* templateIds is moved.
moveTemplatesToFolderFirstOnly(store, templateIds, folderId) ==
  [ store |-> [ store EXCEPT !.templates =
                  [ k \in 1 .. Len(@) |->
                      IF @[k].id \in templateIds
                         /\ \A j \in 1 .. (k - 1) : @[j].id \notin templateIds
                      THEN [ @[k] EXCEPT !.folderId = OrNull(folderId) ]
                      ELSE @[k] ] ],
    saved |-> TRUE, ret |-> "true", out |-> << >> ]

moveTemplatesToFolder(store, templateIds, folderId) ==
  [ store |-> [ store EXCEPT !.templates =
                  [ k \in 1 .. Len(@) |->
                      IF @[k].id \in templateIds
                      THEN [ @[k] EXCEPT !.folderId = OrNull(folderId) ]
                      ELSE @[k] ] ],
    saved |-> TRUE, ret |-> "true", out |-> << >> ]

\* ------------------------------------------------------------------ templates
\* String.prototype.localeCompare on the characters a name of the model
\* holds. The collation compares at the first level with case set aside
\* (white space before punctuation before letters, letters in alphabetical
\* order, a string before its extensions) and, when that gives no
\* difference, by case, the small letter first.
Lower == "abcdefghijklmnopqrstuvwxyz"
Upper == "ABCDEFGHIJKLMNOPQRSTUVWXYZ"

\* The position of the character c in str, 0 when it is not there.
IndexIn(c, str) ==
  IF \E i \in 1 .. Len(str) : SubSeq(str, i, i) = c
  THEN CHOOSE i \in 1 .. Len(str) : SubSeq(str, i, i) = c
  ELSE 0

Primary(c) ==
  IF IndexIn(c, Lower) > 0 THEN 2 + IndexIn(c, Lower)
  ELSE IF IndexIn(c, Upper) > 0 THEN 2 + IndexIn(c, Upper)
  ELSE IF c \in WhiteSpace THEN 1
  ELSE 2

Tertiary(c) == IF IndexIn(c, Upper) > 0 THEN 1 ELSE 0

RECURSIVE ComparePrimary(_, _)
ComparePrimary(a, b) ==
  IF a = "" THEN (IF b = "" THEN 0 ELSE -1)
  ELSE IF b = "" THEN 1
  ELSE LET x == Primary(SubSeq(a, 1, 1))
           y == Primary(SubSeq(b, 1, 1))
       IN  IF x < y THEN -1
           ELSE IF x > y THEN 1
           ELSE ComparePrimary(SubSeq(a, 2, Len(a)), SubSeq(b, 2, Len(b)))

RECURSIVE CompareTertiary(_, _)
CompareTertiary(a, b) ==
  IF a = "" \/ b = "" THEN 0
  ELSE LET x == Tertiary(SubSeq(a, 1, 1))
           y == Tertiary(SubSeq(b, 1, 1))
       IN  IF x < y THEN -1
           ELSE IF x > y THEN 1
           ELSE CompareTertiary(SubSeq(a, 2, Len(a)), SubSeq(b, 2, Len(b)))

localeCompare(a, b) ==
  IF ComparePrimary(a, b) # 0 THEN ComparePrimary(a, b) ELSE CompareTertiary(a, b)

\* Array.prototype.sort((a, b) => a.name.localeCompare(b.name)): the sort
\* is stable, elements that compare equal keep their order.
RECURSIVE InsertByName(_, _)
InsertByName(sorted, t) ==
  IF sorted = << >> THEN << t >>
  ELSE IF localeCompare(t.name, Head(sorted).name) < 0 THEN << t >> \o sorted
  ELSE << Head(sorted) >> \o InsertByName(Tail(sorted), t)

RECURSIVE SortByName(_)
SortByName(seq) ==
  IF seq = << >> THEN << >>
  ELSE InsertByName(SortByName(SubSeq(seq, 1, Len(seq) - 1)), seq[Len(seq)])

\* Mutant of listFolders: the copy is sorted by name, as listTemplates
\* sorts.
listFoldersSorted(store) ==
  [ store |-> store, saved |-> FALSE, ret |-> "array", out |-> SortByName(store.folders) ]

\* listFolders(): a copy of the folder list, in the order of the store.
listFolders(store) ==
  [ store |-> store, saved |-> FALSE, ret |-> "array", out |-> store.folders ]

\* Mutant of listTemplates: the list is returned in the order of the store.
listTemplatesUnsorted(store, folderId) ==
  LET all == store.templates
      InFolder(t) == t.folderId = folderId
  IN  [ store |-> store, saved |-> FALSE, ret |-> "array",
        out |-> IF folderId = NoArg THEN all ELSE SelectSeq(all, InFolder) ]

\* listTemplates({ folderId }): NoArg is the filter left out.
listTemplates(store, folderId) ==
  LET all == SortByName(store.templates)
      InFolder(t) == t.folderId = folderId
  IN  [ store |-> store, saved |-> FALSE, ret |-> "array",
        out |-> IF folderId = NoArg THEN all ELSE SelectSeq(all, InFolder) ]

getTemplate(store, id) ==
  LET i == FindIndex(store.templates, id)
  IN  IF i = 0 THEN [ store |-> store, saved |-> FALSE, ret |-> "null", out |-> << >> ]
      ELSE [ store |-> store, saved |-> FALSE, ret |-> "object",
             out |-> << store.templates[i] >> ]

\* Parameter defaults apply to undefined only: subject = '', folderId = null.
createTemplate(store, a, r, tU, tC, tM) ==
  LET subject == IF a.subject = Undefined THEN "" ELSE a.subject
      t == [ id |-> uid(r, tU),
             name |-> TrimOr(a.name, UntitledTemplateName),
             subject |-> trim(IF Falsy(subject) THEN "" ELSE subject),
             content |-> trim(IF Falsy(a.content) THEN "" ELSE a.content),
             folderId |-> IF a.folderId = NoArg THEN null ELSE a.folderId,
             createdAt |-> tC, updatedAt |-> tM ]
  IN  [ store |-> [ store EXCEPT !.templates = Append(@, t) ],
        saved |-> TRUE, ret |-> "object", out |-> << t >> ]

\* Mutant of PatchName: the "|| t.name" of line 253 is missing.
PatchNameOverwrites(old, patch) ==
  IF patch.name = Undefined THEN old ELSE trim(patch.name)

PatchName(old, patch) ==
  IF patch.name = Undefined THEN old
  ELSE IF trim(patch.name) = "" THEN old ELSE trim(patch.name)

PatchSubject(old, patch) ==
  IF patch.subject = Undefined THEN old ELSE trim(patch.subject)

\* Mutant of PatchContent: the content is trimmed like the subject.
PatchContentTrimmed(old, patch) ==
  IF patch.content = Undefined THEN old ELSE trim(patch.content)

PatchContent(old, patch) ==
  IF patch.content = Undefined THEN old ELSE patch.content

PatchFolderId(old, patch) ==
  IF patch.folderId = NoArg THEN old ELSE patch.folderId

updateTemplate(store, id, patch, tM) ==
  LET i == FindIndex(store.templates, id)
  IN  IF i = 0 THEN [ store |-> store, saved |-> FALSE, ret |-> "false", out |-> << >> ]
      ELSE LET t == store.templates[i]
               u == [ t EXCEPT !.name = PatchName(@, patch),
                               !.subject = PatchSubject(@, patch),
                               !.content = PatchContent(@, patch),
                               !.folderId = PatchFolderId(@, patch),
                               !.updatedAt = tM ]
           IN  [ store |-> [ store EXCEPT !.templates[i] = u ],
                 saved |-> TRUE, ret |-> "true", out |-> << >> ]

\* Mutant of deleteTemplate: the test of line 266 is missing, and
\* splice(-1, 1) removes the last template.
deleteTemplateUnchecked(store, id) ==
  LET i == FindIndex(store.templates, id)
      at == IF i = 0 THEN Len(store.templates) ELSE i
  IN  [ store |-> [ store EXCEPT !.templates = Splice(@, at) ],
        saved |-> TRUE, ret |-> "true", out |-> << >> ]

deleteTemplate(store, id) ==
  LET i == FindIndex(store.templates, id)
  IN  IF i = 0 THEN [ store |-> store, saved |-> FALSE, ret |-> "false", out |-> << >> ]
      ELSE [ store |-> [ store EXCEPT !.templates = Splice(@, i) ],
             saved |-> TRUE, ret |-> "true", out |-> << >> ]


\* ------------------------------------------------------------------ engine
\* The Template Engine: render, missingFields and formatDate.
\*
\* Encoding of the arguments
\*   template   a string; Undefined is a template left out, NotAString a
\*              value that is no string
\*   data       [ given, own ]: given is whether there is an object at all,
\*              own its own entries, a function from keys to values
\*   value      a string, or one of Undefined, JSNull, JSZero, JSFunction for
\*              undefined, null, the number 0 and a function
\* No call of the model passes the text of one of these markers as a string.
NotAString == "<object>"
JSNull == "<null>"
JSZero == "<0>"
JSFunction == "<function>"

\* The properties that an object literal inherits from Object.prototype and
\* whose names are keys of the token grammar, as far as the model uses them
\* (constructor, valueOf, hasOwnProperty, __proto__ ... behave alike).
ProtoKeys == { "toString" }

\* key in data (line 114): own and inherited properties count.
In(key, data) == key \in DOMAIN data.own \/ key \in ProtoKeys

\* data[key]: the own entry, else the inherited one, else undefined.
Get(data, key) ==
  IF key \in DOMAIN data.own THEN data.own[key]
  ELSE IF key \in ProtoKeys THEN JSFunction
  ELSE Undefined

\* JavaScript truthiness of a value: !raw of line 115.
FalsyValue(v) == v \in { "", Undefined, JSNull, JSZero }

\* String(v)
String(v) ==
  IF v = Undefined THEN "undefined"
  ELSE IF v = JSNull THEN "null"
  ELSE IF v = JSZero THEN "0"
  ELSE IF v = JSFunction THEN "function toString() { [native code] }"
  ELSE v

Digits == "0123456789"

\* The i-th character of s, "" past its end.
At(s, i) == IF i >= 1 /\ i <= Len(s) THEN SubSeq(s, i, i) ELSE ""

\* [a-z0-9_] and [a-z] under the i flag.
IsKeyChar(c) ==
  IndexIn(c, Lower) > 0 \/ IndexIn(c, Upper) > 0 \/ IndexIn(c, Digits) > 0 \/ c = "_"

IsLetter(c) == IndexIn(c, Lower) > 0 \/ IndexIn(c, Upper) > 0

\* The place after the longest run of white space (\s*), key characters
\* ([a-z0-9_]+) and letters ([a-z]+) that begins at i. The three classes
\* and the characters that come next in the pattern ("|", "}") are
\* disjoint, so the longest run is the only one a match can use.
RECURSIVE SkipSpace(_, _)
SkipSpace(s, i) == IF At(s, i) \in WhiteSpace THEN SkipSpace(s, i + 1) ELSE i

RECURSIVE SkipKey(_, _)
SkipKey(s, i) == IF IsKeyChar(At(s, i)) THEN SkipKey(s, i + 1) ELSE i

RECURSIVE SkipLetters(_, _)
SkipLetters(s, i) == IF IsLetter(At(s, i)) THEN SkipLetters(s, i + 1) ELSE i

NoMatch == [ len |-> 0, key |-> "", filter |-> Undefined ]

\* The match of /{{\s*([a-z0-9_]+)(?:\|([a-z]+))?\s*}}/i that begins at
\* place i of s: its length, its key and its filter (Undefined when the
\* group took no part), or NoMatch. missingFields uses the same pattern
\* without the inner group of the filter.
MatchAt(s, i) ==
  LET k0 == SkipSpace(s, i + 2)
      k1 == SkipKey(s, k0)
      filtered == At(s, k1) = "|" /\ SkipLetters(s, k1 + 1) > k1 + 1
      f1 == IF filtered THEN SkipLetters(s, k1 + 1) ELSE k1
      e == SkipSpace(s, f1)
  IN  IF /\ At(s, i) = "{" /\ At(s, i + 1) = "{"
         /\ k1 > k0
         /\ At(s, e) = "}" /\ At(s, e + 1) = "}"
      THEN [ len |-> e + 2 - i, key |-> SubSeq(s, k0, k1 - 1),
             filter |-> IF filtered THEN SubSeq(s, k1 + 1, f1 - 1) ELSE Undefined ]
      ELSE NoMatch

\* The number that a text of digits writes.
RECURSIVE Number(_)
Number(s) ==
  IF s = "" THEN 0
  ELSE 10 * Number(SubSeq(s, 1, Len(s) - 1)) + IndexIn(At(s, Len(s)), Digits) - 1

\* The digits of a natural number.
RECURSIVE NumberToString(_)
NumberToString(n) ==
  IF n < 10 THEN At(Digits, n + 1)
  ELSE NumberToString(n \div 10) \o At(Digits, (n % 10) + 1)

\* /^\d{4}-\d{2}-\d{2}$/.test(input)
hasDash(input) ==
  /\ Len(input) = 10
  /\ At(input, 5) = "-"
  /\ At(input, 8) = "-"
  /\ \A i \in { 1, 2, 3, 4, 6, 7, 9, 10 } : IndexIn(At(input, i), Digits) > 0

DaysIn(year, month) ==
  IF month = 2
  THEN IF (year % 4 = 0 /\ year % 100 # 0) \/ year % 400 = 0 THEN 29 ELSE 28
  ELSE IF month \in { 4, 6, 9, 11 } THEN 30 ELSE 31

\* new Date(input + 'T12:00:00') for a text of the form YYYY-MM-DD, and
\* new Date(input) for any other text. Local noon is within the calendar
\* day in every time zone, so the date is the one written. A month or a
\* day out of range gives an invalid date (engines differ on the days 29
\* to 31 of a shorter month: no text of the model has one). Of the other
\* texts of the model none is a date.
NewDate(input) ==
  LET year == Number(SubSeq(input, 1, 4))
      month == Number(SubSeq(input, 6, 7))
      day == Number(SubSeq(input, 9, 10))
  IN  IF /\ hasDash(input)
         /\ month \in 1 .. 12
         /\ day \in 1 .. DaysIn(year, month)
      THEN [ valid |-> TRUE, year |-> year, month |-> month, day |-> day ]
      ELSE [ valid |-> FALSE, year |-> 0, month |-> 0, day |-> 0 ]

MonthLong ==
  << "January", "February", "March", "April", "May", "June", "July",
     "August", "September", "October", "November", "December" >>

MonthShort ==
  << "Jan", "Feb", "Mar", "Apr", "May", "Jun", "Jul", "Aug", "Sep", "Oct",
     "Nov", "Dec" >>

\* Intl.DateTimeFormat(undefined, ...).format(d) of lines 102-103 in the
\* locale en-US: "March 5, 2024" and "Mar 5, 24".
DateTimeFormat(d, style) ==
  LET yy == d.year % 100
  IN  IF style = "short"
      THEN MonthShort[d.month] \o " " \o NumberToString(d.day) \o ", "
             \o (IF yy < 10 THEN "0" ELSE "") \o NumberToString(yy)
      ELSE MonthLong[d.month] \o " " \o NumberToString(d.day) \o ", "
             \o NumberToString(d.year)

formatDate(input, style) ==
  IF FalsyValue(input) THEN ""
  ELSE IF ~ NewDate(input).valid THEN input
  ELSE DateTimeFormat(NewDate(input), style)

\* key.startsWith('date_')
IsDateKey(key) == Len(key) >= 5 /\ SubSeq(key, 1, 5) = "date_"

\* Mutant of Replacement: a date key gets the long format whatever the
\* filter.
ReplacementAlwaysLong(key, filter, data) ==
  LET raw == IF data.given /\ In(key, data) THEN Get(data, key) ELSE ""
  IN  IF FalsyValue(raw) THEN ""
      ELSE IF IsDateKey(key) THEN formatDate(raw, "long")
      ELSE String(raw)

\* The callback of template.replace (lines 113-123): what takes the place
\* of a token with this key and filter.
Replacement(key, filter, data) ==
  LET raw == IF data.given /\ In(key, data) THEN Get(data, key) ELSE ""
  IN  IF FalsyValue(raw) THEN ""
      ELSE IF IsDateKey(key)
           THEN IF filter = "shortdate" THEN formatDate(raw, "short")
                ELSE IF filter = "longdate" THEN formatDate(raw, "long")
                ELSE String(raw)
      ELSE String(raw)

\* The place of the first match at or after place i of s, 0 when there is
\* none: where a scan with the g flag stops next when lastIndex is i.
NextMatch(s, i) ==
  LET places == { j \in i .. Len(s) : MatchAt(s, j).len > 0 }
  IN  IF places = { } THEN 0
      ELSE CHOOSE j \in places : \A k \in places : j <= k

\* String.prototype.replace with a global pattern, from place i on: the
\* text is scanned once from left to right, each match is replaced and the
\* scan goes on after it; what was put in is not scanned again.
RECURSIVE ReplaceFrom(_, _, _)
ReplaceFrom(s, i, data) ==
  LET j == NextMatch(s, i)
  IN  IF j = 0 THEN SubSeq(s, i, Len(s))
      ELSE SubSeq(s, i, j - 1)
             \o Replacement(MatchAt(s, j).key, MatchAt(s, j).filter, data)
             \o ReplaceFrom(s, j + MatchAt(s, j).len, data)

\* Mutant of render: the typeof test of line 111 is missing, and a value
\* that is no string has no replace method.
renderNoTypeCheck(template, data) ==
  IF Falsy(template) THEN [ ret |-> "string", out |-> << "" >> ]
  ELSE IF template = NotAString THEN [ ret |-> "throws", out |-> << "TypeError" >> ]
  ELSE [ ret |-> "string", out |-> << ReplaceFrom(template, 1, data) >> ]

render(template, data) ==
  IF Falsy(template) \/ template = NotAString
  THEN [ ret |-> "string", out |-> << "" >> ]
  ELSE [ ret |-> "string", out |-> << ReplaceFrom(template, 1, data) >> ]

\* The keys of the matches of re.exec from place i on, in order.
RECURSIVE ExecFrom(_, _)
ExecFrom(s, i) ==
  LET j == NextMatch(s, i)
  IN  IF j = 0 THEN << >>
      ELSE << MatchAt(s, j).key >> \o ExecFrom(s, j + MatchAt(s, j).len)

\* new Set() filled by found.add(m[1]): each key once, in the order of the
\* first add.
RECURSIVE SetOf(_)
SetOf(keys) ==
  IF keys = << >> THEN << >>
  ELSE LET before == SetOf(SubSeq(keys, 1, Len(keys) - 1))
           key == keys[Len(keys)]
       IN  IF \E n \in 1 .. Len(before) : before[n] = key
           THEN before ELSE Append(before, key)

\* Line 138 for the key: data?.[key] is undefined, null, or a value whose
\* text trims to nothing.
IsMissing(key, data) ==
  LET val == IF data.given THEN Get(data, key) ELSE Undefined
  IN  val = Undefined \/ val = JSNull \/ trim(String(val)) = ""

missingFields(template, data) ==
  LET Missing(key) == IsMissing(key, data)
  IN  IF Falsy(template) THEN [ ret |-> "array", out |-> << >> ]
      ELSE [ ret |-> "array", out |-> SelectSeq(SetOf(ExecFrom(template, 1)), Missing) ]

\* ------------------------------------------------------------------ inputs
\* Arguments of the calls. Undefined is an argument left out; the others
\* carry white space at an end, so that trimming shows.
FolderNameArgs == { Undefined }
RenameArgs == { " ", " a" }
TemplateNameArgs == { Undefined }
SubjectArgs == { Undefined }
ContentArgs == { " c" }
Modes == { "keep", "deleteTemplates", "undefined" }

FolderIds(store) == { store.folders[i].id : i \in 1 .. Len(store.folders) }
TemplateIds(store) == { store.templates[i].id : i \in 1 .. Len(store.templates) }

Patch(name, subject, content, folderId) ==
  [ name |-> name, subject |-> subject, content |-> content, folderId |-> folderId ]

\* Patches that re-file a template or leave it as it is.
FilingPatches(store) ==
  { Patch(name, Undefined, Undefined, folderId) :
      name \in { Undefined, " " },
      folderId \in FolderIds(store) \cup { null, NoArg } }

\* Patches that file a template under any folder id: updateTemplate stores
\* the id it is given (line 256), also an id that no folder has.
RefilePatches(store) ==
  { Patch(Undefined, Undefined, Undefined, folderId) :
      folderId \in FolderIds(store) \cup { null, NoArg, GhostId } }

\* Patches over every combination of present and absent fields.
FieldPatches(store) ==
  { Patch(name, subject, content, folderId) :
      name \in { Undefined, " ", " a" },
      subject \in { Undefined, " s" },
      content \in { Undefined, " ", "" },
      folderId \in FolderIds(store) \cup { null, NoArg } }

\* The arguments of the Template Engine. Free texts are put together from
\* the pieces of a token in every order, so that tokens occur whole,
\* broken, nested and side by side.
Segments == { "{{", "}}", "a", " ", "|" }

RECURSIVE Texts(_)
Texts(n) ==
  IF n = 0 THEN { "" }
  ELSE Texts(n - 1) \cup { t \o s : t \in Texts(n - 1), s \in Segments }

\* Whole tokens: keys in small and in capital letters, date keys, a key
\* that Object.prototype has, and filters of every kind.
TokenKeys == { "a", "first_name", "First_Name", "date_1", "DATE_1", "toString" }
TokenFilters == { Undefined, "longdate", "shortdate", "LONGDATE", "upper" }

Token(key, filter) ==
  "{{" \o key \o (IF filter = Undefined THEN "" ELSE "|" \o filter) \o "}}"

TokenTexts ==
  { before \o Token(key, filter) \o after :
      before \in { "", "Hi " }, key \in TokenKeys, filter \in TokenFilters,
      after \in { "", "!" } }

\* Several tokens in one text, with keys that repeat.
ListTexts ==
  { Token(k1, Undefined) \o ", " \o Token(k2, filter) \o ", " \o Token(k3, Undefined) :
      k1 \in { "a", "b" }, k2 \in { "a", "b" }, k3 \in { "a", "b" },
      filter \in { Undefined, "longdate" } }

ExampleText == "Hi {{first_name}}, re {{company_name}}"

TemplateArgs ==
  Texts(MaxSegments) \cup TokenTexts \cup ListTexts
    \cup { ExampleText, SampleSubject, SampleContent, Undefined, NotAString }

\* data left out, and the object literal {}.
NoData == [ given |-> FALSE, own |-> << >> ]
EmptyData == [ given |-> TRUE, own |-> << >> ]

\* Data as the pages collect them: every entry a string, some empty, some
\* of white space; and data with entries that are no strings.
FilledData ==
  [ given |-> TRUE,
    own |-> [ a |-> "v", b |-> "w", first_name |-> "Sam", spoke_to |-> "Kim",
              company_name |-> "Acme", competitor |-> "",
              date_1 |-> "2024-03-05", date_2 |-> "2023-12-31" ] ]

DataArgs ==
  { NoData, EmptyData, FilledData,
    [ given |-> TRUE,
      own |-> [ a |-> "a", b |-> " ", first_name |-> " ", company_name |-> "Acme",
                date_1 |-> "soon", date_2 |-> "2024-13-05",
                First_Name |-> "Lee", DATE_1 |-> "2024-03-05" ] ],
    [ given |-> TRUE,
      own |-> [ a |-> JSNull, b |-> JSZero, first_name |-> Undefined,
                date_1 |-> "2024-02-29", date_2 |-> "2023-00-10" ] ] }

\* ------------------------------------------------------------------ actions
NoCall == [ op |-> "none", args |-> << >>, ret |-> "undefined", out |-> << >> ]

\* No handler is running: the page waits for the next event.
Idle == last.op = "none"

\* The execution contexts (tabs) that share the item under STORAGE_KEY.
Contexts == { "tabA", "tabB" }

\* A context that is not inside a call.
NoTab == [ pc |-> "idle", copy |-> << >>, created |-> << >> ]

\* No page script has run: the calls come from any caller of window.ETCore.
NoPage == [ page |-> "none" ]

Init ==
  /\ localStorage = NullItem
  /\ now = 0
  /\ loaded = FALSE
  /\ pre = NullItem
  /\ last = NoCall
  /\ sampleInjections = 0
  /\ full = FALSE
  /\ applied = initial
  /\ tabs = [ c \in Contexts |-> NoTab ]
  /\ ui = NoPage

\* Time passes between two calls.
Tick ==
  /\ Idle
  /\ now < MaxTime
  /\ now' = now + 1
  /\ UNCHANGED << localStorage, loaded, pre, last, sampleInjections, full, applied, tabs, ui >>

\* The call has returned and its handler ends.
Return ==
  /\ ~ Idle
  /\ pre' = NullItem
  /\ last' = NoCall
  /\ UNCHANGED << localStorage, now, loaded, sampleInjections, full, applied, tabs, ui >>

\* A page loads core.js: the script runs ensureSampleTemplate() and then
\* publishes window.ETCore. The clock is read for the id, createdAt and
\* updatedAt of the sample, in that order, when the sample is pushed. When
\* ensureSampleTemplate() throws the script ends there: nothing is written
\* and the page has no window.ETCore.
LoadScript ==
  \E r \in Rand, tC \in now .. MaxTime :
    \E tM \in tC .. MaxTime :
      LET fault == LoadFault(localStorage, full)
          next == IF fault # "none" THEN localStorage
                  ELSE IF localStorage.kind = "object" THEN ObjectItem(TRUE)
                  ELSE ensureSampleTemplate(localStorage, r, now, tC, tM)
          pushed == Len(getStore(next).templates) > Len(getStore(localStorage).templates)
      IN  /\ Idle
          /\ pushed \/ (r = 0 /\ tC = now /\ tM = now)
          /\ localStorage' = next
          /\ now' = IF pushed THEN tM ELSE now
          /\ loaded' = (fault = "none")
          /\ sampleInjections' =
               IF pushed /\ sampleInjections < 2
               THEN sampleInjections + 1 ELSE sampleInjections
          /\ pre' = localStorage
          /\ last' = IF fault = "none"
                     THEN [ op |-> "ensureSampleTemplate", args |-> << >>,
                            ret |-> "undefined", out |-> << >> ]
                     ELSE [ op |-> "ensureSampleTemplate", args |-> << >>,
                            ret |-> "throws", out |-> << fault >> ]
          /\ applied' = IF fault = "none" THEN getStore(next) ELSE applied
          /\ UNCHANGED << full, tabs >>

\* core.js loads on a page whose own script is left out.
LoadPage == LoadScript /\ UNCHANGED ui

\* A call of window.ETCore.<op>: getStore(), the change, saveStore() when
\* the operation reaches it. res is the operation on the store that
\* getStore() returns, ares the same operation on the store that the calls
\* of this page have built up in order. A call that throws writes nothing.
Call(op, args, res, ares, t) ==
  LET fault == CallFault(localStorage, res.saved, full)
  IN  /\ Idle
      /\ loaded
      /\ localStorage' =
           IF fault # "none" THEN localStorage
           ELSE IF res.saved THEN saveStore(res.store) ELSE getStoreItem(localStorage)
      /\ now' = t
      /\ pre' = localStorage
      /\ last' = IF fault = "none"
                 THEN [ op |-> op, args |-> args, ret |-> res.ret, out |-> res.out ]
                 ELSE [ op |-> op, args |-> args, ret |-> "throws", out |-> << fault >> ]
      /\ applied' = IF fault = "none" /\ ares.saved THEN ares.store ELSE applied
      /\ UNCHANGED << loaded, sampleInjections, full, tabs, ui >>

CreateFolderOf(names, max) ==
  \E name \in names, r \in Rand, tC \in now .. MaxTime :
    /\ Len(getStore(localStorage).folders) < max
    /\ Call("createFolder", [ name |-> name ],
            createFolder(getStore(localStorage), name, r, now, tC),
            createFolder(applied, name, r, now, tC), tC)

CreateFolder == CreateFolderOf(FolderNameArgs, MaxFolders)

RenameFolderTo(newNames) ==
  \E id \in FolderIds(getStore(localStorage)) \cup { GhostId }, newName \in newNames :
    Call("renameFolder", [ id |-> id, newName |-> newName ],
         renameFolder(getStore(localStorage), id, newName),
         renameFolder(applied, id, newName), now)

RenameFolder == RenameFolderTo(RenameArgs)

DeleteFolder ==
  \E id \in FolderIds(getStore(localStorage)) \cup { GhostId }, mode \in Modes :
    Call("deleteFolder", [ id |-> id, mode |-> mode ],
         deleteFolder(getStore(localStorage), id, mode),
         deleteFolder(applied, id, mode), now)

MoveTemplatesToFolder ==
  \E templateIds \in SUBSET (TemplateIds(getStore(localStorage)) \cup { GhostId }),
     folderId \in FolderIds(getStore(localStorage)) \cup { null, NoArg } :
    Call("moveTemplatesToFolder", [ templateIds |-> templateIds, folderId |-> folderId ],
         moveTemplatesToFolder(getStore(localStorage), templateIds, folderId),
         moveTemplatesToFolder(applied, templateIds, folderId), now)

GetTemplate ==
  \E id \in TemplateIds(getStore(localStorage)) \cup { GhostId } :
    Call("getTemplate", [ id |-> id ],
         getTemplate(getStore(localStorage), id), getTemplate(applied, id), now)

CreateTemplateOf(names, subjects, contents, max) ==
  \E name \in names, subject \in subjects, content \in contents,
     folderId \in FolderIds(getStore(localStorage)) \cup { null, NoArg },
     r \in Rand, tC \in now .. MaxTime :
    \E tM \in tC .. MaxTime :
      LET a == [ name |-> name, subject |-> subject, content |-> content,
                 folderId |-> folderId ]
      IN  /\ Len(getStore(localStorage).templates) < max
          /\ Call("createTemplate", a,
                  createTemplate(getStore(localStorage), a, r, now, tC, tM),
                  createTemplate(applied, a, r, now, tC, tM), tM)

CreateTemplate ==
  CreateTemplateOf(TemplateNameArgs, SubjectArgs, ContentArgs, MaxTemplates)

UpdateTemplateBy(patches) ==
  \E id \in TemplateIds(getStore(localStorage)) \cup { GhostId }, patch \in patches :
    Call("updateTemplate", [ id |-> id, patch |-> patch ],
         updateTemplate(getStore(localStorage), id, patch, now),
         updateTemplate(applied, id, patch, now), now)

UpdateTemplate == UpdateTemplateBy(FilingPatches(getStore(localStorage)))

DeleteTemplate ==
  \E id \in TemplateIds(getStore(localStorage)) \cup { GhostId } :
    Call("deleteTemplate", [ id |-> id ],
         deleteTemplate(getStore(localStorage), id), deleteTemplate(applied, id), now)

Next ==
  \/ Tick
  \/ Return
  \/ LoadPage
  \/ CreateFolder
  \/ RenameFolder
  \/ DeleteFolder
  \/ MoveTemplatesToFolder
  \/ GetTemplate
  \/ CreateTemplate
  \/ UpdateTemplate
  \/ DeleteTemplate

Spec == Init /\ [][Next]_vars

\* The same store under calls that exercise the fields of a template: at
\* most FieldsMaxFolders folders, and patches over every combination of
\* fields.
CreateOneFolder == CreateFolderOf(FolderNameArgs, FieldsMaxFolders)

UpdateTemplateFields == UpdateTemplateBy(FieldPatches(getStore(localStorage)))

NextFields ==
  \/ Tick
  \/ Return
  \/ LoadPage
  \/ CreateOneFolder
  \/ CreateTemplate
  \/ UpdateTemplateFields

SpecFields == Init /\ [][NextFields]_vars

\* The store when the item under STORAGE_KEY can be lost between two calls:
\* the user clears the site data (getItem gives null again), or other code
\* of the origin leaves text there that is not JSON.
LoseStorage ==
  \E item \in { NullItem, TextItem } :
    /\ Idle
    /\ item # localStorage
    /\ localStorage' = item
    /\ applied' = initial
    /\ UNCHANGED << now, loaded, pre, last, sampleInjections, full, tabs, ui >>

NextBlob ==
  \/ Next
  \/ LoseStorage

SpecBlob == Init /\ [][NextBlob]_vars

\* The store under every fault of its environment: the item can also be
\* JSON that is not a store, and the medium can start to refuse writes
\* (quota reached, storage disabled).
CorruptStorage ==
  \E item \in { FalsyItem, PrimitiveItem, ObjectItem(FALSE) } :
    /\ Idle
    /\ item # localStorage
    /\ localStorage' = item
    /\ applied' = initial
    /\ UNCHANGED << now, loaded, pre, last, sampleInjections, full, tabs, ui >>

FillStorage ==
  /\ Idle
  /\ ~ full
  /\ full' = TRUE
  /\ UNCHANGED << localStorage, now, loaded, pre, last, sampleInjections, applied, tabs, ui >>

NextFaults ==
  \/ Next
  \/ LoseStorage
  \/ CorruptStorage
  \/ FillStorage

SpecFaults == Init /\ [][NextFaults]_vars

\* The same store under calls that exercise names: names that are left
\* out, empty, of white space, padded with white space, and names that
\* differ in their first letter or only in case.
NameArgs == { Undefined, "", " ", " b ", "a", "B" }

NamePatches == { Patch(name, Undefined, Undefined, NoArg) : name \in NameArgs }

CreateNamedFolder == CreateFolderOf(NameArgs, FieldsMaxFolders)

RenameFolderAny == RenameFolderTo(NameArgs)

CreateNamedTemplate == CreateTemplateOf(NameArgs, SubjectArgs, ContentArgs, MaxTemplates)

RenameTemplate == UpdateTemplateBy(NamePatches)

ListTemplates ==
  \E folderId \in FolderIds(getStore(localStorage)) \cup { null, NoArg } :
    Call("listTemplates", [ folderId |-> folderId ],
         listTemplates(getStore(localStorage), folderId),
         listTemplates(applied, folderId), now)

NextNames ==
  \/ Tick
  \/ Return
  \/ LoadPage
  \/ CreateNamedFolder
  \/ RenameFolderAny
  \/ CreateNamedTemplate
  \/ RenameTemplate
  \/ DeleteTemplate
  \/ ListTemplates

SpecNames == Init /\ [][NextNames]_vars

\* The store under every call that files or lists: templates can be filed
\* under an id that no folder has, and both lists are read.
ListFolders ==
  Call("listFolders", << >>, listFolders(getStore(localStorage)), listFolders(applied), now)

RefileTemplate == UpdateTemplateBy(RefilePatches(getStore(localStorage)))

NextFiling ==
  \/ Tick
  \/ Return
  \/ LoadPage
  \/ CreateFolder
  \/ RenameFolder
  \/ DeleteFolder
  \/ MoveTemplatesToFolder
  \/ CreateTemplate
  \/ RefileTemplate
  \/ DeleteTemplate
  \/ ListTemplates
  \/ ListFolders

SpecFiling == Init /\ [][NextFiling]_vars

\* Mutant of EngineItem: the engine goes through getStore() as the calls
\* of the store do.
EngineItemRead(item) == getStoreItem(item)

\* The item after a call of the Template Engine: render and missingFields
\* (lines 110-141) call neither getStore() nor saveStore(), the item is
\* what it was.
EngineItem(item) == item

\* A call of window.ETCore.render or window.ETCore.missingFields, on a
\* page that has loaded and runs no other handler.
EngineCall(op, args, res) ==
  /\ localStorage' = EngineItem(localStorage)
  /\ pre' = localStorage
  /\ last' = [ op |-> op, args |-> args, ret |-> res.ret, out |-> res.out ]
  /\ UNCHANGED << now, loaded, sampleInjections, full, applied, tabs, ui >>

RenderOf(templates, datas) ==
  /\ Idle
  /\ loaded
  /\ \E template \in templates, data \in datas :
       EngineCall("render", [ template |-> template, data |-> data ],
                  render(template, data))

MissingFieldsOf(templates, datas) ==
  /\ Idle
  /\ loaded
  /\ \E template \in templates, data \in datas :
       EngineCall("missingFields", [ template |-> template, data |-> data ],
                  missingFields(template, data))

Render == RenderOf(TemplateArgs, DataArgs)

MissingFields == MissingFieldsOf(TemplateArgs, DataArgs)

\* The Template Engine on a page that has loaded once, at time 0, on an
\* empty storage: the state of Spec after its first LoadPage and Return.
InitEngine ==
  /\ localStorage = ensureSampleTemplate(NullItem, 0, 0, 0, 0)
  /\ now = 0
  /\ loaded = TRUE
  /\ pre = NullItem
  /\ last = NoCall
  /\ sampleInjections = 1
  /\ full = FALSE
  /\ applied = getStore(ensureSampleTemplate(NullItem, 0, 0, 0, 0))
  /\ tabs = [ c \in Contexts |-> NoTab ]
  /\ ui = NoPage

NextEngine ==
  \/ Return
  \/ Render
  \/ MissingFields

SpecEngine == InitEngine /\ [][NextEngine]_vars

\* The Template Engine between the calls of the store: a page renders the
\* subject and the content it holds of a template (the sample, a template
\* of the user) while templates come and go and the item can be lost.
QuickTexts == { SampleSubject, " c" }

QuickRender == RenderOf(QuickTexts, { NoData, FilledData })

QuickMissingFields == MissingFieldsOf(QuickTexts, { NoData, FilledData })

NextQuick ==
  \/ Return
  \/ LoadPage
  \/ LoseStorage
  \/ CreateTemplate
  \/ DeleteTemplate
  \/ QuickRender
  \/ QuickMissingFields

SpecQuick == Init /\ [][NextQuick]_vars

\* Two execution contexts (two tabs of the origin) on one item. Each runs
\* its own calls one at a time, but the contexts run side by side and
\* nothing orders the getItem and setItem of one against those of the
\* other: a createTemplate call is the step of its getStore() (line 233)
\* and the step of the rest (lines 234-245).
\*
\* Mutant of TabStore: the store is read again when the template is pushed.
TabStoreReread(copy, item) == getStore(item)

\* The store that lines 243-244 push to and save: the object that line 233
\* read, whatever the item holds by now.
TabStore(copy, item) == copy

\* The argument of the call each context makes; the content tells the
\* templates of the two contexts apart.
TabArgs(c) ==
  [ name |-> Undefined, subject |-> Undefined, content |-> c, folderId |-> NoArg ]

TabRead(c) ==
  /\ Idle
  /\ loaded
  /\ tabs[c].pc = "idle"
  /\ Len(getStore(localStorage).templates) < MaxTemplates
  /\ tabs' = [ tabs EXCEPT ![c] = [ pc |-> "read",
                                    copy |-> << getStore(localStorage) >>,
                                    created |-> << >> ] ]
  /\ localStorage' = getStoreItem(localStorage)
  /\ UNCHANGED << now, loaded, pre, last, sampleInjections, full, applied, ui >>

TabWrite(c) ==
  \E r \in Rand, tC \in now .. MaxTime :
    \E tM \in tC .. MaxTime :
      LET copy == tabs[c].copy[1]
          res == createTemplate(TabStore(copy, localStorage), TabArgs(c), r, now, tC, tM)
      IN  /\ Idle
          /\ tabs[c].pc = "read"
          /\ localStorage' = saveStore(res.store)
          /\ now' = tM
          /\ pre' = localStorage
          /\ last' = [ op |-> "createTemplate", args |-> [ context |-> c, copy |-> copy ],
                       ret |-> res.ret, out |-> res.out ]
          /\ tabs' = [ tabs EXCEPT ![c] = [ pc |-> "idle", copy |-> << >>,
                                            created |-> res.out ] ]
          /\ UNCHANGED << loaded, sampleInjections, full, applied, ui >>

NextTabs ==
  \/ Tick
  \/ Return
  \/ LoadPage
  \/ \E c \in Contexts : TabRead(c)
  \/ \E c \in Contexts : TabWrite(c)

SpecTabs == Init /\ [][NextTabs]_vars

\* ------------------------------------------------------------------ queries
\* The calls that read: listFolders, listTemplates and getTemplate.
Queries == { "listFolders", "listTemplates", "getTemplate" }

\* The query that a record of last names, on a store.
Query(op, args, store) ==
  IF op = "listFolders" THEN listFolders(store)
  ELSE IF op = "listTemplates" THEN listTemplates(store, args.folderId)
  ELSE getTemplate(store, args.id)

\* The handler that has made a query makes the same query again, with
\* nothing between the two calls. last then holds the second call, and in
\* its arguments the first call and what it returned.
QueryAgain ==
  /\ ~ Idle
  /\ loaded
  /\ last.op \in Queries
  /\ last.ret # "throws"
  /\ LET res == Query(last.op, last.args, getStore(localStorage))
         fault == CallFault(localStorage, res.saved, full)
         first == [ op |-> last.op, args |-> last.args,
                    first |-> [ ret |-> last.ret, out |-> last.out ] ]
     IN  /\ localStorage' =
              IF fault # "none" THEN localStorage
              ELSE IF res.saved THEN saveStore(res.store) ELSE getStoreItem(localStorage)
         /\ pre' = localStorage
         /\ last' = IF fault = "none"
                    THEN [ op |-> "repeat", args |-> first, ret |-> res.ret, out |-> res.out ]
                    ELSE [ op |-> "repeat", args |-> first, ret |-> "throws",
                           out |-> << fault >> ]
  /\ UNCHANGED << now, loaded, sampleInjections, full, applied, tabs, ui >>

\* The store under calls that build it and calls that read it, on an item
\* that can be lost.
NextQuery ==
  \/ Return
  \/ LoadPage
  \/ LoseStorage
  \/ CreateFolder
  \/ CreateTemplate
  \/ MoveTemplatesToFolder
  \/ DeleteTemplate
  \/ ListFolders
  \/ ListTemplates
  \/ GetTemplate
  \/ QueryAgain

SpecQuery == Init /\ [][NextQuery]_vars

\* -------------------------------------------------------------------- pages
\* The scripts of the pages, which call window.ETCore from their handlers.
\* ui is the page that is open: which one, its state object and the values
\* of its elements. One handler is one step, with every call it makes;
\* last.op names the handler.
\*
\* The value '' of a <select>: its placeholder option is chosen, or the
\* value assigned to it is the value of none of its options.
EmptyValue == << -2 >>

\* v || null and v || '' for the value of a <select>: '' is falsy.
ValueOrNull(v) == IF v = EmptyValue THEN null ELSE v

\* select.value = v: the option with that value is chosen, and none when
\* there is no such option.
SelectValue(options, v) ==
  IF \E n \in 1 .. Len(options) : options[n] = v THEN v ELSE EmptyValue

Ids(seq) == [ n \in 1 .. Len(seq) |-> seq[n].id ]

\* A handler that runs to its end, and one that an error ends.
Done == [ ret |-> "undefined", out |-> << >> ]
Thrown(error) == [ ret |-> "throws", out |-> << error >> ]

\* A handler of a page ends: item is what it leaves under STORAGE_KEY,
\* page what it leaves of the page, t the last reading of the clock.
Handler(op, args, res, item, page, t) ==
  /\ localStorage' = item
  /\ now' = t
  /\ pre' = localStorage
  /\ last' = [ op |-> op, args |-> args, ret |-> res.ret, out |-> res.out ]
  /\ applied' = getStore(item)
  /\ ui' = page
  /\ UNCHANGED << loaded, sampleInjections, full, tabs >>

\* ------------------------------------------------------------- preview page
\* index.js. The six inputs carry data-field, one for each of
\* PLACEHOLDER_KEYS; fields holds what is typed into them.
PLACEHOLDER_KEYS ==
  << "first_name", "spoke_to", "company_name", "competitor", "date_1", "date_2" >>

NoFields ==
  [ first_name |-> "", spoke_to |-> "", company_name |-> "", competitor |-> "",
    date_1 |-> "", date_2 |-> "" ]

\* collectInputs(): every value but the dates is trimmed.
collectInputs(fields) ==
  [ given |-> TRUE,
    own |-> [ key \in DOMAIN fields |->
                IF IsDateKey(key) THEN fields[key] ELSE trim(fields[key]) ] ]

\* Line 162: the template literal joins the two texts with a line feed.
combinedTemplateForMissing(subjectStr, bodyStr) == subjectStr \o "\n" \o bodyStr

\* applyPreviews() for one of the two texts.
Preview(text) == IF Falsy(text) \/ trim(text) = "" THEN "" ELSE text

\* getSelectedTemplate(): the record getTemplate() returns, << >> for null.
getSelectedTemplate(store, id) ==
  IF id = EmptyValue THEN << >> ELSE getTemplate(store, id).out

\* What getSelectedTemplate() leaves under STORAGE_KEY: it calls ETCore
\* only for an id that is set.
getSelectedTemplateItem(item, id) ==
  IF id = EmptyValue THEN item ELSE getStoreItem(item)

\* refreshPreview(): the page after it. The stored subject is a string or,
\* in a template of the older builder, '' by the default of createTemplate.
refreshPreview(page, item) ==
  LET inputs == collectInputs(page.fields)
      found == getSelectedTemplate(getStore(item), page.selectedTemplateId)
      subjectStr == IF found = << >> \/ Falsy(found[1].subject) THEN "" ELSE found[1].subject
      bodyStr == IF found = << >> \/ Falsy(found[1].content) THEN "" ELSE found[1].content
  IN  [ page EXCEPT
          !.inputs = inputs,
          !.subjectPreview = Preview(render(subjectStr, inputs).out[1]),
          !.bodyPreview = Preview(render(bodyStr, inputs).out[1]),
          !.missing =
             IF found = << >> THEN missingFields("", inputs).out
             ELSE missingFields(combinedTemplateForMissing(subjectStr, bodyStr),
                                inputs).out ]

\* The page as its script builds it, before the first refreshPreview():
\* the options of buildTemplateOptions(), the cached id and inputs.
buildTemplateOptions(store, cachedId, cachedFields) ==
  [ page |-> "index",
    options |-> Ids(listTemplates(store, NoArg).out),
    selectedTemplateId |-> cachedId,
    fields |-> cachedFields,
    inputs |-> collectInputs(cachedFields),
    subjectPreview |-> "", bodyPreview |-> "", missing |-> << >> ]

\* The preview page loads. The two caches hold what the page saved when it
\* was open before, and nothing on its first load.
OpenIndex ==
  /\ LoadScript
  /\ ui' = IF ~ loaded' THEN NoPage
           ELSE refreshPreview(
                  buildTemplateOptions(
                    getStore(localStorage'),
                    IF ui.page = "index" THEN ui.selectedTemplateId ELSE EmptyValue,
                    IF ui.page = "index" THEN ui.inputs.own ELSE NoFields),
                  localStorage')

OnIndex == Idle /\ loaded /\ ui.page = "index"

\* What is typed into the six inputs.
FieldArgs ==
  { NoFields,
    [ NoFields EXCEPT !.first_name = " Sam ", !.spoke_to = " ", !.company_name = "Acme",
                      !.date_1 = "2024-03-05", !.date_2 = "soon" ] }

\* An input or change event of one of the six inputs.
InputChange ==
  /\ OnIndex
  /\ \E fields \in FieldArgs :
       LET page == [ ui EXCEPT !.fields = fields ]
       IN  Handler("refreshPreview", [ fields |-> fields ], Done,
                   getSelectedTemplateItem(localStorage, ui.selectedTemplateId),
                   refreshPreview(page, localStorage), now)

\* The change event of the template select: one of its options is chosen.
SelectTemplate ==
  /\ OnIndex
  /\ \E id \in { ui.options[n] : n \in 1 .. Len(ui.options) } \cup { EmptyValue } :
       LET page == [ ui EXCEPT !.selectedTemplateId = id ]
       IN  Handler("refreshPreview", [ templateSel |-> id ], Done,
                   getSelectedTemplateItem(localStorage, id),
                   refreshPreview(page, localStorage), now)

\* The click on Clear.
ClearInputs ==
  /\ OnIndex
  /\ LET page == [ ui EXCEPT !.fields = NoFields ]
     IN  Handler("refreshPreview", [ fields |-> NoFields ], Done,
                 getSelectedTemplateItem(localStorage, ui.selectedTemplateId),
                 refreshPreview(page, localStorage), now)

\* Subjects and bodies as a caller of createTemplate() can store them: with
\* whole tokens, with none, and with the two halves of a token.
PreviewSubjects ==
  { Undefined, "{{date_1}} {{first_name}}", "{{first_name" }

PreviewBodies ==
  { "", "{{first_name}} at {{company_name}}", "}}" }

CreatePreviewTemplate ==
  CreateTemplateOf({ "T" }, PreviewSubjects, PreviewBodies, MaxTemplates)

NextPreview ==
  \/ Return
  \/ OpenIndex
  \/ CreatePreviewTemplate
  \/ InputChange
  \/ SelectTemplate
  \/ ClearInputs

SpecPreview == Init /\ [][NextPreview]_vars

\* ------------------------------------------------------------- builder page
\* builder.js, in its two versions: the one of src/builder.js, lines 1-188,
\* with a name and a body, and the later one with a subject line as well.
\* hasSubject tells which one the page runs.
\*
\* What setTestPreview() shows for a text that is empty or white space.
EmptyTestPreview == "Your rendered template will appear here."

\* populateFolderOptions(selectId): every option but the placeholder is
\* removed, which leaves the placeholder chosen, the options are built
\* again from listFolders(), and selectId is chosen when it is truthy; an
\* id is.
populateFolderOptions(page, store, selectId) ==
  LET options == Ids(listFolders(store).out)
  IN  [ page EXCEPT !.options = options,
                    !.folder = IF selectId = null THEN EmptyValue
                               ELSE SelectValue(options, selectId) ]

\* The builder as its page shows it before anything is typed.
BuilderPage(hasSubject) ==
  [ page |-> "builder", hasSubject |-> hasSubject,
    name |-> "", subject |-> "", body |-> "", folder |-> EmptyValue, options |-> << >>,
    test |-> NoFields, testPreview |-> EmptyTestPreview ]

\* The builder page loads: core.js, then the script of the page.
OpenBuilderOf(versions) ==
  \E hasSubject \in versions :
    /\ LoadScript
    /\ ui' = IF ~ loaded' THEN NoPage
             ELSE populateFolderOptions(BuilderPage(hasSubject),
                                        getStore(localStorage'), null)

OpenBuilder == OpenBuilderOf(BOOLEAN)

OnBuilder == Idle /\ loaded /\ ui.page = "builder"

\* What is typed: names and texts that are empty, of white space, and
\* with white space at both ends.
BuilderNames == { "", " ", " N " }
BuilderSubjects == { "", " S " }
BuilderBodies == { "", " ", " Hi {{first_name}} " }

\* The user types into the name, the subject or the body. No listener of
\* the page runs.
TypeTemplate ==
  /\ OnBuilder
  /\ \E name \in BuilderNames, body \in BuilderBodies,
        subject \in IF ui.hasSubject THEN BuilderSubjects ELSE { "" } :
       ui' = [ ui EXCEPT !.name = name, !.subject = subject, !.body = body ]
  /\ UNCHANGED << localStorage, now, loaded, pre, last, sampleInjections, full,
                  applied, tabs >>

\* The user chooses an option of the folder select.
ChooseFolder ==
  /\ OnBuilder
  /\ \E v \in { ui.options[n] : n \in 1 .. Len(ui.options) } \cup { EmptyValue } :
       ui' = [ ui EXCEPT !.folder = v ]
  /\ UNCHANGED << localStorage, now, loaded, pre, last, sampleInjections, full,
                  applied, tabs >>

\* The user fills the Quick Test inputs.
TypeTest ==
  /\ OnBuilder
  /\ \E fields \in FieldArgs : ui' = [ ui EXCEPT !.test = fields ]
  /\ UNCHANGED << localStorage, now, loaded, pre, last, sampleInjections, full,
                  applied, tabs >>

\* prompt(): null when it is cancelled, else the text.
PromptArgs == { Undefined, "", " F " }

\* The click on New Folder; times are the readings of the clock that
\* nowISO() can get.
NewFolderAt(times) ==
  /\ OnBuilder
  /\ \E name \in PromptArgs, r \in Rand, tC \in times :
       LET res == createFolder(getStore(localStorage), name, r, now, tC)
       IN  IF Falsy(name)
           THEN /\ r = 0 /\ tC = now
                /\ Handler("newFolder", [ name |-> name ], Done, localStorage, ui, now)
           ELSE /\ Len(getStore(localStorage).folders) < MaxFolders
                /\ Handler("newFolder", [ name |-> name ], Done, saveStore(res.store),
                           populateFolderOptions(ui, res.store, res.out[1].id), tC)

NewFolder == NewFolderAt(now .. MaxTime)

\* setTestPreview(text).
setTestPreview(text) == IF Falsy(text) \/ trim(text) = "" THEN EmptyTestPreview ELSE text

\* The reset listener after confirm(): the page it leaves. The version
\* without a subject assigns to els.dateFilter.value after it has cleared
\* the name, the body and the folder; els has no dateFilter, the
\* assignment throws a TypeError and the listener ends there.
resetFields(page) ==
  IF page.hasSubject
  THEN [ page EXCEPT !.name = "", !.subject = "", !.body = "", !.folder = EmptyValue,
                     !.test = NoFields, !.testPreview = setTestPreview("") ]
  ELSE [ page EXCEPT !.name = "", !.body = "", !.folder = EmptyValue ]

\* How the reset listener ends after confirm().
resetEnds(page) == IF page.hasSubject THEN Done ELSE Thrown("TypeError")

\* The click on Reset: nothing happens when there is nothing to clear or
\* when confirm() is answered with Cancel.
Reset ==
  /\ OnBuilder
  /\ ~ (ui.body = "" /\ ui.name = "" /\ ui.subject = "")
  /\ \E sure \in BOOLEAN :
       Handler("reset", [ sure |-> sure ], IF sure THEN resetEnds(ui) ELSE Done,
               localStorage, IF sure THEN resetFields(ui) ELSE ui, now)

\* Mutant of saveTemplateCalls: the test of the name is missing.
saveTemplateUnnamed(page) == trim(page.body) # ""

\* saveTemplate(): whether it reaches createTemplate().
saveTemplateCalls(page) == trim(page.body) # "" /\ trim(page.name) # ""

\* saveTemplate(): what it passes to createTemplate(). The version without
\* a subject passes none.
saveTemplateArgs(page) ==
  [ name |-> trim(page.name),
    subject |-> IF page.hasSubject THEN trim(page.subject) ELSE Undefined,
    content |-> trim(page.body),
    folderId |-> ValueOrNull(page.folder) ]

\* The click on Save, or Ctrl/Cmd+S.
SaveTemplateAt(times) ==
  /\ OnBuilder
  /\ \E by \in { "click", "keydown" }, r \in Rand, tC \in times :
       \E tM \in { t \in times : t >= tC } :
         LET a == saveTemplateArgs(ui)
             res == createTemplate(getStore(localStorage), a, r, now, tC, tM)
         IN  IF saveTemplateCalls(ui)
             THEN /\ Len(getStore(localStorage).templates) < MaxTemplates
                  /\ Handler("saveTemplate",
                             [ by |-> by, calls |-> TRUE, folderId |-> a.folderId ],
                             Done, saveStore(res.store), ui, tM)
             ELSE /\ r = 0 /\ tC = now /\ tM = now
                  /\ Handler("saveTemplate",
                             [ by |-> by, calls |-> FALSE, folderId |-> a.folderId ],
                             Done, localStorage, ui, now)

SaveTemplate == SaveTemplateAt(now .. MaxTime)

\* The click on Render of the Quick Test.
RenderTest ==
  /\ OnBuilder
  /\ Handler("renderTest", << >>, Done, localStorage,
             [ ui EXCEPT !.testPreview =
                 setTestPreview(render(ui.body, [ given |-> TRUE, own |-> ui.test ]).out[1]) ],
             now)

NextBuilder ==
  \/ Return
  \/ OpenBuilder
  \/ TypeTemplate
  \/ ChooseFolder
  \/ TypeTest
  \/ NewFolder
  \/ Reset
  \/ SaveTemplate
  \/ RenderTest

SpecBuilder == Init /\ [][NextBuilder]_vars

\* ------------------------------------------------------------- library page
\* library.js (src/builder.js, lines 190-593). folderRows and rows are the
\* rows that renderFolders() and renderTemplates() have built: a row
\* carries the id of its folder or template, and its buttons act on that
\* id. The search input is left empty.
\*
\* The sentinel 'ALL' of selectedFolderId.
ALL == << -3 >>

renderFolders(page, store) == [ page EXCEPT !.folderRows = Ids(listFolders(store).out) ]

renderTemplates(page, store) ==
  LET Selected(t) == page.selectedFolderId = ALL \/ t.folderId = page.selectedFolderId
  IN  [ page EXCEPT !.rows = Ids(SelectSeq(listTemplates(store, NoArg).out, Selected)) ]

closeEditor(page) ==
  [ page EXCEPT !.editingTemplateId = null, !.editName = "", !.editBody = "" ]

\* populateEditFolderOptions(selectedId): the value assigned is
\* selectedId || ''.
populateEditFolderOptions(page, store, selectedId) ==
  LET options == Ids(listFolders(store).out)
  IN  [ page EXCEPT !.editOptions = options,
                    !.editFolder = IF selectedId = null THEN EmptyValue
                                   ELSE SelectValue(options, selectedId) ]

openEditor(page, store, templateId) ==
  LET found == getTemplate(store, templateId).out
  IN  IF found = << >> THEN page
      ELSE populateEditFolderOptions(
             [ page EXCEPT !.editingTemplateId = found[1].id,
                           !.editName = found[1].name,
                           !.editBody = found[1].content ],
             store, found[1].folderId)

\* The library as its script builds it: 'ALL' selected, no editor.
LibraryPage(store) ==
  renderTemplates(
    renderFolders(
      [ page |-> "library", selectedFolderId |-> ALL, editingTemplateId |-> null,
        editName |-> "", editBody |-> "", editFolder |-> EmptyValue,
        editOptions |-> << >>, folderRows |-> << >>, rows |-> << >> ],
      store),
    store)

\* The library page loads: core.js, then the script of the page.
OpenLibrary ==
  /\ LoadScript
  /\ ui' = IF ~ loaded' THEN NoPage ELSE LibraryPage(getStore(localStorage'))

OnLibrary == Idle /\ loaded /\ ui.page = "library"

Rows(seq) == { seq[n] : n \in 1 .. Len(seq) }

\* The click on a row of the folder list, 'All templates' among them.
ClickFolderRow ==
  /\ OnLibrary
  /\ \E id \in Rows(ui.folderRows) \cup { ALL } :
       Handler("folderRow", [ id |-> id ], Done, getStoreItem(localStorage),
               renderTemplates([ ui EXCEPT !.selectedFolderId = id ],
                               getStore(localStorage)),
               now)

\* The click on Add Folder, in the millisecond of the last reading of the
\* clock.
AddFolder ==
  /\ OnLibrary
  /\ \E name \in PromptArgs, r \in Rand, tC \in { now } :
       LET res == createFolder(getStore(localStorage), name, r, now, tC)
       IN  IF Falsy(name)
           THEN /\ r = 0 /\ tC = now
                /\ Handler("addFolder", [ name |-> name ], Done, localStorage, ui, now)
           ELSE /\ Len(getStore(localStorage).folders) < MaxFolders
                /\ Handler("addFolder", [ name |-> name ], Done, saveStore(res.store),
                           renderTemplates(
                             [ renderFolders(ui, res.store)
                                 EXCEPT !.selectedFolderId = res.out[1].id ],
                             res.store),
                           tC)

\* The click on Rename Folder.
RenameFolderBtn ==
  /\ OnLibrary
  /\ \E nextName \in PromptArgs :
       LET store == getStore(localStorage)
           idx == IF ui.selectedFolderId = ALL THEN 0
                  ELSE FindIndex(store.folders, ui.selectedFolderId)
           res == renameFolder(store, ui.selectedFolderId, nextName)
       IN  IF ui.selectedFolderId = ALL
           THEN /\ nextName = Undefined
                /\ Handler("renameFolderBtn", << >>, Done, localStorage, ui, now)
           ELSE IF idx = 0 \/ Falsy(nextName)
           THEN /\ idx = 0 => nextName = Undefined
                /\ Handler("renameFolderBtn", << >>, Done, getStoreItem(localStorage),
                           ui, now)
           ELSE Handler("renameFolderBtn", [ newName |-> nextName ], Done,
                        IF res.saved THEN saveStore(res.store)
                        ELSE getStoreItem(localStorage),
                        renderTemplates(renderFolders(ui, res.store), res.store), now)

\* Mutant of deleteFolderDone: closeEditor() of line 461 is missing.
deleteFolderKeepsEditor(page) == [ page EXCEPT !.selectedFolderId = ALL ]

\* Lines 460-461: the selection goes back to 'ALL' and the editor closes.
deleteFolderDone(page) == closeEditor([ page EXCEPT !.selectedFolderId = ALL ])

\* The click on Delete Folder: the first confirm() asks whether to delete,
\* the second whether the templates of the folder go with it.
DeleteFolderBtn ==
  /\ OnLibrary
  /\ \E sure \in BOOLEAN, alsoDelete \in BOOLEAN :
       LET store == getStore(localStorage)
           idx == IF ui.selectedFolderId = ALL THEN 0
                  ELSE FindIndex(store.folders, ui.selectedFolderId)
           mode == IF alsoDelete THEN "deleteTemplates" ELSE "keep"
           res == deleteFolder(store, ui.selectedFolderId, mode)
           args == [ sure |-> sure, mode |-> mode, editing |-> ui.editingTemplateId ]
       IN  IF ui.selectedFolderId = ALL
           THEN /\ ~ sure /\ ~ alsoDelete
                /\ Handler("deleteFolderBtn", args, Done, localStorage, ui, now)
           ELSE IF idx = 0 \/ ~ sure
           THEN /\ ~ alsoDelete
                /\ idx = 0 => ~ sure
                /\ Handler("deleteFolderBtn", args, Done, getStoreItem(localStorage),
                           ui, now)
           ELSE Handler("deleteFolderBtn", args, Done, saveStore(res.store),
                        renderTemplates(renderFolders(deleteFolderDone(ui), res.store),
                                        res.store),
                        now)

\* The click on Edit of a row.
EditRow ==
  /\ OnLibrary
  /\ \E id \in Rows(ui.rows) :
       Handler("openEditor", [ templateId |-> id ], Done, getStoreItem(localStorage),
               openEditor(ui, getStore(localStorage), id), now)

\* The click on Cancel of the editor.
CancelEdit ==
  /\ OnLibrary
  /\ Handler("cancelEdit", << >>, Done, localStorage, closeEditor(ui), now)

\* What is typed into the editor.
EditNames == { " ", " M " }
EditBodies == { " b" }

\* The user changes the fields of the open editor. No listener runs.
TypeEdit ==
  /\ OnLibrary
  /\ ui.editingTemplateId # null
  /\ \E name \in EditNames, body \in EditBodies,
        v \in Rows(ui.editOptions) \cup { EmptyValue } :
       ui' = [ ui EXCEPT !.editName = name, !.editBody = body, !.editFolder = v ]
  /\ UNCHANGED << localStorage, now, loaded, pre, last, sampleInjections, full,
                  applied, tabs >>

\* The patch of the save listener of the editor.
saveEditPatch(page) ==
  Patch(trim(page.editName), Undefined, page.editBody, ValueOrNull(page.editFolder))

\* The click on Save of the editor.
SaveEdit ==
  /\ OnLibrary
  /\ LET patch == saveEditPatch(ui)
         res == updateTemplate(getStore(localStorage), ui.editingTemplateId, patch, now)
         args == [ calls |-> FALSE, folderId |-> patch.folderId ]
     IN  IF ui.editingTemplateId = null \/ patch.name = ""
         THEN Handler("saveEdit", args, Done, localStorage, ui, now)
         ELSE Handler("saveEdit", [ args EXCEPT !.calls = TRUE ], Done,
                      IF res.saved THEN saveStore(res.store)
                      ELSE getStoreItem(localStorage),
                      renderTemplates(renderFolders(closeEditor(ui), res.store),
                                      res.store),
                      now)

\* The click on Delete of the editor.
DeleteEdit ==
  /\ OnLibrary
  /\ \E sure \in BOOLEAN :
       LET res == deleteTemplate(getStore(localStorage), ui.editingTemplateId)
           args == [ templateId |-> ui.editingTemplateId, sure |-> sure,
                     editing |-> ui.editingTemplateId ]
       IN  IF ui.editingTemplateId = null
           THEN /\ ~ sure
                /\ Handler("deleteEdit", args, Done, localStorage, ui, now)
           ELSE IF ~ sure
           THEN Handler("deleteEdit", args, Done, getStoreItem(localStorage), ui, now)
           ELSE Handler("deleteEdit", args, Done,
                        IF res.saved THEN saveStore(res.store)
                        ELSE getStoreItem(localStorage),
                        renderTemplates(renderFolders(closeEditor(ui), res.store),
                                        res.store),
                        now)

\* The digits a text begins with.
RECURSIVE LeadingDigits(_)
LeadingDigits(s) ==
  IF s = "" \/ IndexIn(At(s, 1), Digits) = 0 THEN ""
  ELSE At(s, 1) \o LeadingDigits(SubSeq(s, 2, Len(s)))

\* parseInt(answer, 10): white space is skipped, a sign is read, then the
\* digits up to the first character that is none; NaN without a digit.
parseInt(answer) ==
  LET text == trimStart(answer)
      signed == At(text, 1) \in { "-", "+" }
      digits == LeadingDigits(IF signed THEN SubSeq(text, 2, Len(text)) ELSE text)
  IN  IF digits = "" THEN [ nan |-> TRUE, n |-> 0 ]
      ELSE [ nan |-> FALSE,
             n |-> IF At(text, 1) = "-" THEN 0 - Number(digits) ELSE Number(digits) ]

\* Answers to the prompt of Move; Undefined is Cancel.
MoveAnswers == { Undefined, "0", " 1", "2x", "-1", "x" }

\* The click on Move of a row.
MoveRow ==
  /\ OnLibrary
  /\ \E id \in Rows(ui.rows), answer \in MoveAnswers :
       LET store == getStore(localStorage)
           folders == listFolders(store).out
           idx == IF answer = Undefined THEN [ nan |-> TRUE, n |-> 0 ]
                  ELSE parseInt(answer)
           valid == ~ idx.nan /\ idx.n >= 0 /\ idx.n <= Len(folders)
           targetFolderId == IF valid /\ idx.n > 0 THEN folders[idx.n].id ELSE null
           res == moveTemplatesToFolder(store, { id }, targetFolderId)
           args == [ templateId |-> id, answer |-> answer, calls |-> valid,
                     folderId |-> targetFolderId ]
       IN  IF ~ valid
           THEN Handler("moveTemplatePrompt", args, Done, getStoreItem(localStorage),
                        ui, now)
           ELSE Handler("moveTemplatePrompt", args, Done, saveStore(res.store),
                        renderTemplates(renderFolders(ui, res.store), res.store), now)

\* Mutant of deleteTemplateDone: the test and closeEditor() of line 588 are
\* missing.
deleteTemplateKeepsEditor(page, templateId) == page

\* Line 588: the editor closes when it shows the template that went.
deleteTemplateDone(page, templateId) ==
  IF page.editingTemplateId = templateId THEN closeEditor(page) ELSE page

\* The click on Delete of a row.
DeleteRow ==
  /\ OnLibrary
  /\ \E id \in Rows(ui.rows), sure \in BOOLEAN :
       LET res == deleteTemplate(getStore(localStorage), id)
           args == [ templateId |-> id, sure |-> sure, editing |-> ui.editingTemplateId ]
       IN  IF ~ sure
           THEN Handler("deleteTemplate", args, Done, getStoreItem(localStorage), ui, now)
           ELSE Handler("deleteTemplate", args, Done,
                        IF res.saved THEN saveStore(res.store)
                        ELSE getStoreItem(localStorage),
                        renderTemplates(
                          renderFolders(deleteTemplateDone(ui, id), res.store),
                          res.store),
                        now)

\* The builder with one name and one body typed, and no test.
TypeDraft ==
  /\ OnBuilder
  /\ ui' = [ ui EXCEPT !.name = " N ", !.body = " Hi {{first_name}} " ]
  /\ UNCHANGED << localStorage, now, loaded, pre, last, sampleInjections, full,
                  applied, tabs >>

\* The builder and the library in one browsing context: the user goes
\* from one page to the other, and the page opened runs its script.
NextLibrary ==
  \/ Return
  \/ OpenLibrary
  \/ ClickFolderRow
  \/ AddFolder
  \/ RenameFolderBtn
  \/ DeleteFolderBtn
  \/ EditRow
  \/ CancelEdit
  \/ TypeEdit
  \/ SaveEdit
  \/ DeleteEdit
  \/ MoveRow
  \/ DeleteRow
  \/ OpenBuilderOf({ TRUE })
  \/ TypeDraft
  \/ ChooseFolder
  \/ NewFolderAt({ now })
  \/ SaveTemplateAt({ now })

SpecLibrary == Init /\ [][NextLibrary]_vars

\* ------------------------------------------------------------------ claims
\* The store when the last call began, and the store it left.
P == getStore(pre)
Q == getStore(localStorage)

Called(op) == last.op = op
Seeded(store) == store.settings.sampleSeeded = TRUE

\* seq2 is seq1 without its i-th element, the others in their order.
RemovedAt(seq1, seq2, i) ==
  /\ i \in 1 .. Len(seq1)
  /\ Len(seq2) = Len(seq1) - 1
  /\ \A j \in 1 .. Len(seq2) : seq2[j] = IF j < i THEN seq1[j] ELSE seq1[j + 1]

NoDangling(store) ==
  \A k \in 1 .. Len(store.templates) :
    store.templates[k].folderId \in FolderIds(store) \cup { null }

\* C1: the sample template is injected at most once over the lifetime of
\* the store: a run of ensureSampleTemplate that follows an earlier run (the
\* store is persisted by then) adds no template, whatever calls came between.
C1_SampleAtMostOnce ==
  /\ sampleInjections <= 1
  /\ (Called("ensureSampleTemplate") /\ pre.kind = "json") => Q.templates = P.templates

\* C1 witness: the sample was injected, every template was deleted, and
\* ensureSampleTemplate has run again on the empty template list.
C1_Witness ==
  /\ Called("ensureSampleTemplate")
  /\ pre.kind = "json"
  /\ Len(P.templates) = 0
  /\ sampleInjections = 1

\* C2: settings.sampleSeeded never goes back: a call that begins with
\* sampleSeeded true ends with it true, and once a page has loaded it is true.
C2_SeededMonotonic ==
  /\ (~ Idle /\ pre.kind = "json" /\ Seeded(P)) => Seeded(Q)
  /\ loaded => Seeded(Q)

\* C2 witness: the last template has just been deleted and the flag stands.
C2_Witness ==
  /\ Called("deleteTemplate")
  /\ last.ret = "true"
  /\ Len(Q.templates) = 0
  /\ Seeded(P)
  /\ Seeded(Q)

\* C3 (as claimed): folder ids are pairwise distinct and template ids are
\* pairwise distinct in every reachable store.
C3_UniqueIds ==
  /\ \A i, j \in 1 .. Len(Q.folders) : Q.folders[i].id = Q.folders[j].id => i = j
  /\ \A i, j \in 1 .. Len(Q.templates) : Q.templates[i].id = Q.templates[j].id => i = j

KeepMode == last.args.mode # "deleteTemplates"

\* C4: deleteFolder(id, 'keep') and deleteFolder(id) on an existing folder
\* return true, remove one folder, the one with that id, keep every template,
\* set folderId to null on exactly the templates that were in the folder, and
\* leave every other template and folder as it was.
C4_DeleteFolderKeep ==
  (Called("deleteFolder") /\ KeepMode /\ last.args.id \in FolderIds(P)) =>
    /\ last.ret = "true"
    /\ \E i \in 1 .. Len(P.folders) :
         P.folders[i].id = last.args.id /\ RemovedAt(P.folders, Q.folders, i)
    /\ Len(Q.templates) = Len(P.templates)
    /\ \A k \in 1 .. Len(P.templates) :
         Q.templates[k] =
           IF P.templates[k].folderId = last.args.id
           THEN [ P.templates[k] EXCEPT !.folderId = null ]
           ELSE P.templates[k]

\* C4 witness: a folder holding a template was deleted in keep mode while
\* another folder and a template outside the folder were there.
C4_Witness ==
  /\ Called("deleteFolder")
  /\ KeepMode
  /\ last.ret = "true"
  /\ Len(P.folders) = 2
  /\ \E k \in 1 .. Len(P.templates) : P.templates[k].folderId = last.args.id
  /\ \E k \in 1 .. Len(P.templates) : P.templates[k].folderId # last.args.id

\* The positions of the templates that are not in the folder, and the n-th
\* of them.
Outside(store, id) ==
  { k \in 1 .. Len(store.templates) : store.templates[k].folderId # id }

NthOutside(store, id, n) ==
  CHOOSE k \in Outside(store, id) :
    Cardinality({ j \in Outside(store, id) : j < k }) = n - 1

\* C5: deleteFolder(id, 'deleteTemplates') on an existing folder returns
\* true, removes one folder, the one with that id, removes exactly the
\* templates that were in it, and leaves the other templates and folders as
\* they were, in their order.
C5_DeleteFolderWithTemplates ==
  (Called("deleteFolder") /\ ~ KeepMode /\ last.args.id \in FolderIds(P)) =>
    /\ last.ret = "true"
    /\ \E i \in 1 .. Len(P.folders) :
         P.folders[i].id = last.args.id /\ RemovedAt(P.folders, Q.folders, i)
    /\ Len(Q.templates) = Cardinality(Outside(P, last.args.id))
    /\ \A n \in 1 .. Len(Q.templates) :
         Q.templates[n] = P.templates[NthOutside(P, last.args.id, n)]

\* C5 witness: a folder holding a template was deleted with its templates
\* while a template outside the folder was there.
C5_Witness ==
  /\ Called("deleteFolder")
  /\ ~ KeepMode
  /\ last.ret = "true"
  /\ \E k \in 1 .. Len(P.templates) : P.templates[k].folderId = last.args.id
  /\ \E k \in 1 .. Len(P.templates) : P.templates[k].folderId # last.args.id
  /\ Len(Q.templates) = 1

\* C6: after a successful deleteFolder, in either mode, no template has the
\* deleted id as folderId, and if no template referred to a missing folder
\* before the call then none does after it.
C6_NoDanglingAfterDelete ==
  (Called("deleteFolder") /\ last.ret = "true") =>
    /\ \A k \in 1 .. Len(Q.templates) : Q.templates[k].folderId # last.args.id
    /\ NoDangling(P) => NoDangling(Q)

\* C6 witness: the deleted folder held every template of a store without
\* dangling references.
C6_Witness ==
  /\ Called("deleteFolder")
  /\ last.ret = "true"
  /\ NoDangling(P)
  /\ Len(P.templates) = 2
  /\ \A k \in 1 .. Len(P.templates) : P.templates[k].folderId = last.args.id

\* C7 (as claimed): a call that changes a field of an existing template
\* (updateTemplate, moveTemplatesToFolder, deleteFolder in keep mode) sets
\* that template's updatedAt to the time of the call.
C7_UpdatedAtOnEveryMutation ==
  (\/ Called("updateTemplate")
   \/ Called("moveTemplatesToFolder")
   \/ (Called("deleteFolder") /\ KeepMode)) =>
    \A k \in 1 .. Len(P.templates) :
      Q.templates[k] # P.templates[k] => Q.templates[k].updatedAt = now

\* s consists of white space only.
Blank(s) == \A i \in 1 .. Len(s) : SubSeq(s, i, i) \in WhiteSpace

\* t is s without the white space at its two ends.
IsTrimOf(t, s) ==
  \E i \in 1 .. Len(s) + 1, j \in 0 .. Len(s) :
    /\ t = SubSeq(s, i, j)
    /\ Blank(SubSeq(s, 1, i - 1))
    /\ Blank(SubSeq(s, j + 1, Len(s)))
    /\ t = "" \/ (SubSeq(t, 1, 1) \notin WhiteSpace /\ SubSeq(t, Len(t), Len(t)) \notin WhiteSpace)

\* C8: updateTemplate on an existing template returns true and sets its
\* updatedAt to the current time, whether or not a field changes; a patch
\* whose name is empty after trimming leaves the name as it was.
C8_UpdateRefreshesUpdatedAt ==
  (Called("updateTemplate") /\ last.args.id \in TemplateIds(P)) =>
    /\ last.ret = "true"
    /\ \E i \in 1 .. Len(P.templates) :
         /\ P.templates[i].id = last.args.id
         /\ Q.templates[i].updatedAt = now
         /\ (last.args.patch.name # Undefined /\ Blank(last.args.patch.name))
              => Q.templates[i].name = P.templates[i].name

\* C8 witness: a template renamed earlier and last updated before now was
\* patched with a name of white space.
C8_Witness ==
  /\ Called("updateTemplate")
  /\ last.ret = "true"
  /\ last.args.patch.name = " "
  /\ \E i \in 1 .. Len(P.templates) :
       /\ P.templates[i].id = last.args.id
       /\ P.templates[i].name = "a"
       /\ P.templates[i].updatedAt < now

\* C9: a successful updateTemplate changes, among name, subject, content
\* and folderId, only the fields present in the patch: the name becomes the
\* trimmed name unless that is empty, the subject the trimmed subject, the
\* content the given content as it is, folderId the given value, null
\* included; id, createdAt, the other templates, the folders and the
\* settings stay as they were.
C9_UpdateFrame ==
  (Called("updateTemplate") /\ last.ret = "true") =>
    LET patch == last.args.patch
    IN  /\ Q.folders = P.folders
        /\ Q.settings = P.settings
        /\ Len(Q.templates) = Len(P.templates)
        /\ \E i \in 1 .. Len(P.templates) :
             LET old == P.templates[i]
                 new == Q.templates[i]
             IN  /\ old.id = last.args.id
                 /\ \A k \in 1 .. Len(P.templates) : k # i => Q.templates[k] = P.templates[k]
                 /\ new.id = old.id
                 /\ new.createdAt = old.createdAt
                 /\ IF patch.name = Undefined \/ Blank(patch.name)
                    THEN new.name = old.name
                    ELSE IsTrimOf(new.name, patch.name)
                 /\ IF patch.subject = Undefined
                    THEN new.subject = old.subject
                    ELSE IsTrimOf(new.subject, patch.subject)
                 /\ new.content = IF patch.content = Undefined THEN old.content ELSE patch.content
                 /\ new.folderId = IF patch.folderId = NoArg THEN old.folderId ELSE patch.folderId

\* C9 witness: a patch with all four fields, the folderId an explicit null,
\* changed each of them on a filed template while another template was there.
C9_Witness ==
  /\ Called("updateTemplate")
  /\ last.ret = "true"
  /\ Len(P.templates) = 2
  /\ last.args.patch = Patch(" a", " s", " ", null)
  /\ \E i \in 1 .. Len(P.templates) :
       /\ P.templates[i].id = last.args.id
       /\ P.templates[i].folderId # null
       /\ Q.templates[i].folderId = null
       /\ Q.templates[i].name # P.templates[i].name
       /\ Q.templates[i].subject # P.templates[i].subject
       /\ Q.templates[i].content # P.templates[i].content

\* C10: a call with an id that matches no entity returns false (getTemplate:
\* null) and leaves the persisted folders, templates and settings as they were.
C10_NotFoundIsAValue ==
  /\ (Called("renameFolder") \/ Called("deleteFolder")) /\ last.args.id \notin FolderIds(P)
       => last.ret = "false" /\ localStorage = pre
  /\ (Called("updateTemplate") \/ Called("deleteTemplate")) /\ last.args.id \notin TemplateIds(P)
       => last.ret = "false" /\ localStorage = pre
  /\ Called("getTemplate") /\ last.args.id \notin TemplateIds(P)
       => last.ret = "null" /\ localStorage = pre

\* C10 witness: deleteTemplate was called with an unknown id on a store
\* that holds templates and folders.
C10_Witness ==
  /\ Called("deleteTemplate")
  /\ last.args.id \notin TemplateIds(P)
  /\ Len(P.templates) > 0
  /\ Len(P.folders) > 0

\* C11 (as claimed): no call ends with an error: every Store operation,
\* and the seeding at page load, returns a value whatever the item under
\* STORAGE_KEY holds and whether or not the medium accepts a write.
C11_NoFaultIsFatal == last.ret # "throws"

\* C12: a call that finds no item under STORAGE_KEY, or text that is not
\* JSON, returns a value and works on the default store (version 1, no
\* folders, no templates, settings without sampleSeeded): what it leaves in
\* storage is that store with the call's own change and nothing else, and
\* a call that changes nothing leaves the default store itself.
C12_FailSoft ==
  (~ Idle /\ pre.kind \in { "null", "text" }) =>
    /\ last.ret # "throws"
    /\ localStorage.kind = "json"
    /\ Q.version = 1
    /\ Q.folders = IF Called("createFolder") THEN last.out ELSE << >>
    /\ IF Called("createTemplate") THEN Q.templates = last.out
       ELSE IF Called("ensureSampleTemplate")
            THEN Len(Q.templates) = 1 /\ Q.templates[1].name = SampleName
       ELSE Q.templates = << >>
    /\ Seeded(Q) <=> Called("ensureSampleTemplate")
    /\ (Called("renameFolder") \/ Called("deleteFolder")
          \/ Called("updateTemplate") \/ Called("deleteTemplate")) => last.ret = "false"
    /\ Called("getTemplate") => last.ret = "null"
    /\ Called("moveTemplatesToFolder") => last.ret = "true"

\* C12 witness: getTemplate was called on a page whose item had been
\* replaced by text that is not JSON, and the default store is in storage.
C12_Witness ==
  /\ Called("getTemplate")
  /\ pre.kind = "text"
  /\ localStorage = JSONstringify(initial)

Holds(store, t) == \E k \in 1 .. Len(store.templates) : store.templates[k] = t

\* C14: nothing protects the item against a second writer: the write of a
\* createTemplate call puts into storage the store the call read at its
\* start with the new template appended, whatever another context has
\* written since that read.
C14_BlindOverwrite ==
  Called("createTemplate") =>
    /\ Q.templates = Append(last.args.copy.templates, last.out[1])
    /\ Q.folders = last.args.copy.folders
    /\ Q.settings = last.args.copy.settings

\* C14 witness: a lost update. The template that createTemplate returned
\* to one context was in storage, and the write of the other context, made
\* from a copy read before, has removed it.
C14_Witness ==
  \E c, d \in Contexts :
    /\ c # d
    /\ Called("createTemplate")
    /\ last.args.context = d
    /\ tabs[c].pc = "idle"
    /\ tabs[c].created # << >>
    /\ Holds(P, tabs[c].created[1])
    /\ ~ Holds(Q, tabs[c].created[1])

\* C15: every folder and every template of a store reached through the API
\* has a name that is not empty: a name left out, empty or of white space
\* gives the default name at creation and keeps the previous name at
\* renameFolder and updateTemplate.
C15_NamesNotEmpty ==
  /\ \A k \in 1 .. Len(Q.folders) :
       Q.folders[k].name # "" /\ Q.folders[k].name # Undefined
  /\ \A k \in 1 .. Len(Q.templates) :
       Q.templates[k].name # "" /\ Q.templates[k].name # Undefined
  /\ (Called("createFolder") /\ (last.args.name = Undefined \/ Blank(last.args.name)))
       => last.out[1].name = NewFolderName
  /\ (Called("createTemplate") /\ (last.args.name = Undefined \/ Blank(last.args.name)))
       => last.out[1].name = UntitledTemplateName
  /\ (Called("renameFolder") /\ (last.args.newName = Undefined \/ Blank(last.args.newName)))
       => \A k \in 1 .. Len(Q.folders) : Q.folders[k].name = P.folders[k].name
  /\ (Called("updateTemplate") /\ (last.args.patch.name = Undefined \/ Blank(last.args.patch.name)))
       => \A k \in 1 .. Len(Q.templates) : Q.templates[k].name = P.templates[k].name

\* C15 witness: updateTemplate was given an empty name for a renamed
\* template, in a store whose folder was created without a usable name.
C15_Witness ==
  /\ Called("updateTemplate")
  /\ last.ret = "true"
  /\ last.args.patch.name = ""
  /\ Len(Q.folders) = 1
  /\ Q.folders[1].name = NewFolderName
  /\ \E k \in 1 .. Len(P.templates) :
       P.templates[k].id = last.args.id /\ P.templates[k].name = "b"

\* C16: renameFolder on an existing folder returns true; the folder found
\* by the id gets the new name with the white space at its ends removed,
\* or keeps its name when nothing is left of the new one; its id and
\* createdAt, the other folders, the templates and the settings stay as
\* they were.
C16_RenameFolder ==
  (Called("renameFolder") /\ last.args.id \in FolderIds(P)) =>
    /\ last.ret = "true"
    /\ Len(Q.folders) = Len(P.folders)
    /\ Q.templates = P.templates
    /\ Q.settings = P.settings
    /\ \E i \in 1 .. Len(P.folders) :
         /\ P.folders[i].id = last.args.id
         /\ \A k \in 1 .. Len(P.folders) : k # i => Q.folders[k] = P.folders[k]
         /\ Q.folders[i].id = P.folders[i].id
         /\ Q.folders[i].createdAt = P.folders[i].createdAt
         /\ IF last.args.newName = Undefined \/ Blank(last.args.newName)
            THEN Q.folders[i].name = P.folders[i].name
            ELSE IsTrimOf(Q.folders[i].name, last.args.newName)

\* C16 witness: of two folders with different ids the second, renamed
\* before, was given a name of white space while a template was filed in it.
C16_Witness ==
  /\ Called("renameFolder")
  /\ last.ret = "true"
  /\ last.args.newName = " "
  /\ Len(P.folders) = 2
  /\ P.folders[1].id # P.folders[2].id
  /\ P.folders[2].id = last.args.id
  /\ P.folders[2].name = "a"
  /\ \E k \in 1 .. Len(P.templates) : P.templates[k].folderId = last.args.id

\* C17: moveTemplatesToFolder returns true; every template whose id is in
\* templateIds gets the given folderId, null when none or null is given;
\* every other template stays as it was, an id that matches no template
\* changes nothing, and the folders and settings stay as they were.
C17_MoveTemplates ==
  Called("moveTemplatesToFolder") =>
    /\ last.ret = "true"
    /\ Q.folders = P.folders
    /\ Q.settings = P.settings
    /\ Len(Q.templates) = Len(P.templates)
    /\ \A k \in 1 .. Len(P.templates) :
         Q.templates[k] =
           IF P.templates[k].id \in last.args.templateIds
           THEN [ P.templates[k] EXCEPT !.folderId =
                    IF last.args.folderId \in { NoArg, null }
                    THEN null ELSE last.args.folderId ]
           ELSE P.templates[k]

\* C17 witness: two filed templates and an id that matches no template
\* were moved with no folderId given, and both templates are unfiled.
C17_Witness ==
  /\ Called("moveTemplatesToFolder")
  /\ last.args.folderId = NoArg
  /\ GhostId \in last.args.templateIds
  /\ Len(P.templates) = 2
  /\ \A k \in 1 .. 2 :
       /\ P.templates[k].id \in last.args.templateIds
       /\ P.templates[k].folderId # null
       /\ Q.templates[k].folderId = null

\* C18 (as claimed): createTemplate appends one template and returns it;
\* its id is none of the ids the store held, its name, subject and content
\* are the given ones without the white space at their ends (the default
\* name when nothing is left, the empty subject when none is given), its
\* folderId is the given one or null, its createdAt equals its updatedAt;
\* the templates and folders that were there stay as they were.
C18_CreateTemplate ==
  Called("createTemplate") =>
    /\ Len(Q.templates) = Len(P.templates) + 1
    /\ SubSeq(Q.templates, 1, Len(P.templates)) = P.templates
    /\ Q.folders = P.folders
    /\ LET t == Q.templates[Len(Q.templates)]
           a == last.args
       IN  /\ last.out = << t >>
           /\ t.id \notin TemplateIds(P)
           /\ IF a.name = Undefined \/ Blank(a.name)
              THEN t.name = UntitledTemplateName
              ELSE IsTrimOf(t.name, a.name)
           /\ IF a.subject = Undefined THEN t.subject = ""
              ELSE IsTrimOf(t.subject, a.subject)
           /\ IF a.content = Undefined THEN t.content = ""
              ELSE IsTrimOf(t.content, a.content)
           /\ t.folderId = IF a.folderId = NoArg THEN null ELSE a.folderId
           /\ t.createdAt = t.updatedAt

\* C19 (as claimed): deleteTemplate on an existing template returns true
\* and removes it: there is one template less, the template found by the id
\* is the one that is gone, the other templates and the folders stay as they
\* were, and getTemplate of the same id then returns null.
C19_DeleteTemplate ==
  (Called("deleteTemplate") /\ last.args.id \in TemplateIds(P)) =>
    /\ last.ret = "true"
    /\ Len(Q.templates) = Len(P.templates) - 1
    /\ \E i \in 1 .. Len(P.templates) :
         P.templates[i].id = last.args.id /\ RemovedAt(P.templates, Q.templates, i)
    /\ Q.folders = P.folders
    /\ getTemplate(Q, last.args.id).ret = "null"

\* The one-to-one maps of 1 .. n onto itself.
Permutations(n) ==
  { f \in [ 1 .. n -> 1 .. n ] : \A i, j \in 1 .. n : f[i] = f[j] => i = j }

\* C20: listTemplates() with no filter returns the templates of the store,
\* each of them once and none missing, in ascending order of name under
\* localeCompare, whatever their order in the store; the template list in
\* storage is left in the order it had.
C20_ListTemplatesSorted ==
  (Called("listTemplates") /\ last.args.folderId = NoArg) =>
    /\ last.ret = "array"
    /\ Len(last.out) = Len(P.templates)
    /\ \E f \in Permutations(Len(P.templates)) :
         \A i \in 1 .. Len(P.templates) : last.out[i] = P.templates[f[i]]
    /\ \A i, j \in 1 .. Len(last.out) :
         i < j => localeCompare(last.out[i].name, last.out[j].name) <= 0
    /\ Q.templates = P.templates

\* C20 witness: the store held "b" before "a", after a rename, and the list
\* came back with "a" first.
C20_Witness ==
  /\ Called("listTemplates")
  /\ last.args.folderId = NoArg
  /\ Len(P.templates) = 2
  /\ P.templates[1].name = "b"
  /\ P.templates[1].updatedAt > P.templates[1].createdAt
  /\ P.templates[2].name = "a"
  /\ last.out[1] = P.templates[2]
  /\ last.out[2] = P.templates[1]

\* The templates of a store that belong to no folder: their folderId is not
\* the id of a folder of the store.
Unfiled(store) ==
  LET InNoFolder(t) == t.folderId \notin FolderIds(store)
  IN  SelectSeq(store.templates, InNoFolder)

\* The templates of a store whose folderId is f.
FiledUnder(store, f) ==
  LET InFolder(t) == t.folderId = f
  IN  SelectSeq(store.templates, InFolder)

\* The list holds each element of the sequence once and no other, in
\* ascending order of name.
IsSortedListOf(list, seq) ==
  /\ Len(list) = Len(seq)
  /\ \E f \in Permutations(Len(seq)) : \A i \in 1 .. Len(seq) : list[i] = seq[f[i]]
  /\ \A i, j \in 1 .. Len(list) :
       i < j => localeCompare(list[i].name, list[j].name) <= 0

\* C21: listTemplates({folderId: f}) returns exactly the templates whose
\* folderId is f, and listTemplates({folderId: null}) returns exactly the
\* unfiled templates, every template that belongs to no folder; both in
\* order of name.
C21_ListTemplatesFiltered ==
  (Called("listTemplates") /\ last.args.folderId # NoArg) =>
    /\ last.ret = "array"
    /\ IF last.args.folderId = null
       THEN IsSortedListOf(last.out, Unfiled(P))
       ELSE IsSortedListOf(last.out, FiledUnder(P, last.args.folderId))

\* C22: listFolders() returns the folder list as the store holds it, with
\* no sort. The list is in creation order: createFolder appends; renameFolder
\* keeps every folder at its place; deleteFolder takes one folder out and
\* keeps the others in their order; every call on templates leaves the
\* folder list as it was.
C22_FolderOrder ==
  /\ Called("listFolders") =>
        /\ last.ret = "array"
        /\ last.out = P.folders
        /\ Q = P
  /\ Called("createFolder") => Q.folders = Append(P.folders, last.out[1])
  /\ Called("renameFolder") =>
        /\ Len(Q.folders) = Len(P.folders)
        /\ \A i \in 1 .. Len(P.folders) :
             /\ Q.folders[i].id = P.folders[i].id
             /\ Q.folders[i].createdAt = P.folders[i].createdAt
  /\ Called("deleteFolder") =>
        IF last.ret = "true"
        THEN \E i \in 1 .. Len(P.folders) : RemovedAt(P.folders, Q.folders, i)
        ELSE Q.folders = P.folders
  /\ (\/ Called("createTemplate") \/ Called("updateTemplate")
      \/ Called("deleteTemplate") \/ Called("moveTemplatesToFolder")
      \/ Called("listTemplates")) => Q.folders = P.folders
  /\ \A i, j \in 1 .. Len(Q.folders) :
       i < j => Q.folders[i].createdAt <= Q.folders[j].createdAt

\* C22 witness: the second folder was created later and renamed to a name
\* that sorts before the name of the first, and listFolders() returned the
\* two in creation order.
C22_Witness ==
  /\ Called("listFolders")
  /\ Len(last.out) = 2
  /\ last.out[1].createdAt < last.out[2].createdAt
  /\ localeCompare(last.out[1].name, last.out[2].name) > 0

\* The template argument of the last call is a string.
IsText(t) == t # Undefined /\ t # NotAString

\* The text holds no placeholder token.
NoToken(t) == NextMatch(t, 1) = 0

\* The text holds one placeholder token and, around it, text without one.
OneToken(t) ==
  /\ NextMatch(t, 1) > 0
  /\ NextMatch(t, NextMatch(t, 1) + MatchAt(t, NextMatch(t, 1)).len) = 0

\* The token of a text that holds one, the text before it and after it.
TheToken(t) == MatchAt(t, NextMatch(t, 1))
Before(t) == SubSeq(t, 1, NextMatch(t, 1) - 1)
After(t) == SubSeq(t, NextMatch(t, 1) + TheToken(t).len, Len(t))

\* The data hold an entry for the key: a mapping from keys to values has
\* the entries that were put into it.
HasEntry(data, key) == data.given /\ key \in DOMAIN data.own

\* The text holds "{{" or "}}".
HasTokenSyntax(v) ==
  \E i \in 1 .. Len(v) - 1 : SubSeq(v, i, i + 1) \in { "{{", "}}" }

\* C23: render is idempotent: render(render(t, data), data) = render(t, data)
\* whenever no value substituted for a placeholder of t holds {{...}}
\* syntax.
C23_RenderIdempotent ==
  LET t == last.args.template
      data == last.args.data
  IN  ( /\ Called("render")
        /\ IsText(t)
        /\ \A j \in 1 .. Len(t) :
             MatchAt(t, j).len > 0 =>
               ~ HasTokenSyntax(Replacement(MatchAt(t, j).key, MatchAt(t, j).filter, data)) )
      => render(last.out[1], data).out = last.out

\* C24: render puts the empty string (not the token, not a fault) in the
\* place of every token whose key has no entry in data or whose entry is
\* empty or falsy; render("{{K}}", {}) is "" for every key K of the token
\* grammar that does not begin with date_.
C24_MissingRendersEmpty ==
  LET t == last.args.template
      data == last.args.data
  IN  ( /\ Called("render")
        /\ IsText(t)
        /\ OneToken(t)
        /\ \/ ~ HasEntry(data, TheToken(t).key)
           \/ FalsyValue(data.own[TheToken(t).key]) )
      => /\ last.ret = "string"
         /\ last.out = << Before(t) \o After(t) >>

\* C25: render returns a text that holds no placeholder token as it is,
\* whatever the data; for a template that is missing or is no string it
\* returns the empty string.
C25_RenderIdentity ==
  LET t == last.args.template
  IN  Called("render") =>
        /\ last.ret = "string"
        /\ ~ IsText(t) => last.out = << "" >>
        /\ (IsText(t) /\ NoToken(t)) => last.out = << t >>

\* C25 witness: a text with braces, a key and a bar that is no token was
\* rendered against data that hold the key, and came back as it was.
C25_Witness ==
  /\ Called("render")
  /\ last.args.template = "{{a|}}"
  /\ HasEntry(last.args.data, "a")
  /\ last.args.data.own["a"] = "v"
  /\ last.out = << "{{a|}}" >>

\* C26: filter dispatch. For a token whose key begins with date_ and whose
\* value is not empty, the filter shortdate gives the date in the short
\* format, longdate gives it in the long format, and no filter or any
\* other filter gives the raw value. For a token with any other key the
\* result is the raw value as a string, whatever the filter.
C26_FilterDispatch ==
  LET t == last.args.template
      data == last.args.data
      key == TheToken(t).key
      filter == TheToken(t).filter
      raw == data.own[key]
      put == IF ~ IsDateKey(key) THEN String(raw)
             ELSE IF filter = "shortdate" THEN formatDate(raw, "short")
             ELSE IF filter = "longdate" THEN formatDate(raw, "long")
             ELSE raw
  IN  ( /\ Called("render")
        /\ IsText(t)
        /\ OneToken(t)
        /\ HasEntry(data, key)
        /\ ~ FalsyValue(raw) )
      => /\ last.out = << Before(t) \o put \o After(t) >>
         /\ (IsDateKey(key) /\ raw = "2024-03-05" /\ filter = "longdate")
              => put = "March 5, 2024"
         /\ (IsDateKey(key) /\ raw = "2024-03-05" /\ filter = "shortdate")
              => put = "Mar 5, 24"

\* C26 witness: {{date_1|shortdate}} was rendered with the date 2024-03-05
\* and gave the short format.
C26_Witness ==
  /\ Called("render")
  /\ last.args.template = "Hi {{date_1|shortdate}}!"
  /\ HasEntry(last.args.data, "date_1")
  /\ last.args.data.own["date_1"] = "2024-03-05"
  /\ last.out = << "Hi Mar 5, 24!" >>

\* String.prototype.toLowerCase() on the letters a text of the model holds.
RECURSIVE LowerCase(_)
LowerCase(s) ==
  IF s = "" THEN ""
  ELSE IF Len(s) = 1
       THEN IF IndexIn(s, Upper) > 0 THEN At(Lower, IndexIn(s, Upper)) ELSE s
  ELSE LowerCase(SubSeq(s, 1, Len(s) \div 2))
         \o LowerCase(SubSeq(s, (Len(s) \div 2) + 1, Len(s)))

\* C27: tokens match whatever the case of the letters of key and filter,
\* and two tokens that differ only in the case of these letters render to
\* the same output for the same data.
C27_CaseInsensitive ==
  LET t == last.args.template
      data == last.args.data
  IN  ( /\ Called("render")
        /\ IsText(t)
        /\ OneToken(LowerCase(t))
        /\ Before(LowerCase(t)) = ""
        /\ After(LowerCase(t)) = "" )
      => /\ OneToken(t)
         /\ TheToken(t).len = Len(t)
         /\ last.out = render(LowerCase(t), data).out

\* The place of the first occurrence of a key in a sequence of keys.
FirstPlace(keys, key) ==
  CHOOSE i \in 1 .. Len(keys) :
    keys[i] = key /\ \A j \in 1 .. Len(keys) : keys[j] = key => i <= j

\* The value of the key in the data is absent, null, or a string that
\* trims to the empty string.
Absent(data, key) ==
  \/ ~ HasEntry(data, key)
  \/ data.own[key] \in { Undefined, JSNull }
  \/ trim(String(data.own[key])) = ""

\* C28: missingFields returns, each once and in the order of their first
\* appearance in the template, exactly the keys of the tokens of the
\* template (filter set aside) whose value in data is absent, null, or a
\* string that trims to the empty string.
C28_MissingFields ==
  LET t == last.args.template
      data == last.args.data
      keys == ExecFrom(t, 1)
      out == last.out
  IN  ( Called("missingFields") /\ IsText(t) ) =>
        /\ last.ret = "array"
        /\ \A i, j \in 1 .. Len(out) : i # j => out[i] # out[j]
        /\ \A i \in 1 .. Len(out) :
             \E n \in 1 .. Len(keys) : keys[n] = out[i] /\ Absent(data, out[i])
        /\ \A n \in 1 .. Len(keys) :
             Absent(data, keys[n]) => \E i \in 1 .. Len(out) : out[i] = keys[n]
        /\ \A i, j \in 1 .. Len(out) :
             i < j => FirstPlace(keys, out[i]) < FirstPlace(keys, out[j])

C30_EnsureSampleTemplate ==
  (Called("ensureSampleTemplate") /\ last.ret # "throws") =>
    IF ~ Seeded(P) /\ Len(P.templates) = 0
    THEN /\ Len(Q.templates) = 1
         /\ Q.templates[1].folderId = null
         /\ Seeded(Q)
         /\ Q.folders = P.folders
    ELSE /\ Q.templates = P.templates
         /\ Q.folders = P.folders

\* C30 witness: the page loaded on a store that was not seeded and held a
\* template of the user (created after the item had been lost): no sample
\* was added, the template stayed and the flag was set.
C30_Witness ==
  /\ Called("ensureSampleTemplate")
  /\ ~ Seeded(P)
  /\ Len(P.templates) = 1
  /\ P.templates[1].name = UntitledTemplateName
  /\ Q.templates = P.templates
  /\ Seeded(Q)

\* C32: a save of the builder (button or shortcut) creates a template
\* exactly when the body and the name both have text that is no white
\* space; the template it creates carries the trimmed name and body, both
\* non-empty, and otherwise the item in storage stays as it was.
C32_BuilderSave ==
  Called("saveTemplate") =>
    IF trim(ui.body) # "" /\ trim(ui.name) # ""
    THEN /\ Len(Q.templates) = Len(P.templates) + 1
         /\ SubSeq(Q.templates, 1, Len(P.templates)) = P.templates
         /\ LET t == Q.templates[Len(Q.templates)]
            IN  /\ t.name = trim(ui.name) /\ t.name # ""
                /\ t.content = trim(ui.body) /\ t.content # ""
    ELSE localStorage = pre

\* A save from the builder with white space around the name and the body
\* has created a template.
C32_Witness ==
  /\ Called("saveTemplate")
  /\ Len(Q.templates) = Len(P.templates) + 1
  /\ ui.name # trim(ui.name)
  /\ ui.body # trim(ui.body)

\* C33: a Reset of the builder that was confirmed runs to its end and
\* leaves the name, the body, the folder select, the six Quick Test inputs
\* and the test preview cleared.
C33_ResetClears ==
  (Called("reset") /\ last.args.sure) =>
    /\ last.ret = "undefined"
    /\ ui.name = "" /\ ui.body = ""
    /\ ui.folder = EmptyValue
    /\ ui.test = NoFields
    /\ ui.testPreview = EmptyTestPreview

\* C34: in one browsing context, whatever the builder and the library have
\* done, every template is filed under null or under a folder of the
\* store, and a handler that calls createTemplate, updateTemplate or
\* moveTemplatesToFolder passes null or the id of a folder that the store
\* holds when the handler begins.
C34_FolderIdsExist ==
  /\ NoDangling(Q)
  /\ (last.op \in { "saveTemplate", "saveEdit", "moveTemplatePrompt" } /\ last.args.calls)
       => last.args.folderId \in FolderIds(P) \cup { null }

\* The editor of the library has saved a template under a folder, and the
\* template was filed elsewhere before.
C34_Witness ==
  /\ Called("saveEdit")
  /\ last.args.calls
  /\ last.args.folderId # null
  /\ \E k \in 1 .. Len(Q.templates) :
       /\ Q.templates[k].folderId = last.args.folderId
       /\ P.templates[k].folderId # last.args.folderId

\* C35: while the editor of the library is open, the store holds a
\* template with the id the editor edits.
C35_EditedTemplateExists ==
  (ui.page = "library" /\ ui.editingTemplateId # null)
    => ui.editingTemplateId \in TemplateIds(Q)

\* Delete of a row has removed the template that the editor showed, and
\* the editor is closed.
C35_Witness ==
  /\ Called("deleteTemplate")
  /\ last.args.sure
  /\ last.args.editing = last.args.templateId
  /\ Len(Q.templates) = Len(P.templates) - 1
  /\ ui.editingTemplateId = null

\* C36: a call of listFolders, listTemplates or getTemplate on an item that
\* holds a store leaves the item as it was, and the same query made again
\* right after it returns what the first one returned.
C36_QueriesDoNotMutate ==
  /\ (last.op \in Queries \cup { "repeat" } /\ pre.kind = "json") => localStorage = pre
  /\ Called("repeat") => /\ last.ret = last.args.first.ret
                         /\ last.out = last.args.first.out

\* listTemplates has been called twice with a folder as its filter, on a
\* store with two templates of which the filter lets one through.
C36_Witness ==
  /\ Called("repeat")
  /\ last.args.op = "listTemplates"
  /\ last.args.args.folderId \in FolderIds(Q)
  /\ pre.kind = "json"
  /\ Len(Q.templates) = 2
  /\ Len(last.out) = 1

\* refreshPreview() has just run on the preview page, in a handler or at
\* the end of the page's script.
Refreshed ==
  /\ ui.page = "index"
  /\ Called("refreshPreview") \/ Called("ensureSampleTemplate")

\* The template the preview page shows, << >> when it shows none.
Shown == IF ui.page = "index" THEN getSelectedTemplate(Q, ui.selectedTemplateId) ELSE << >>

\* The keys of the tokens of a text, as a set.
Referenced(text) ==
  LET keys == IF Falsy(text) THEN << >> ELSE ExecFrom(text, 1)
  IN  { keys[n] : n \in 1 .. Len(keys) }

====
